---- MODULE Spec2Model ----
(***************************************************************************)
(* JobTracker (openeogeotrellis/job_tracker_v2.py): the reconciliation     *)
(* pass update_statuses and the per-job _sync_job_status, modelled one     *)
(* external call per step.  Every external call (status provider, primary  *)
(* registry "zk", secondary registry "ejr", results-metadata resolver,     *)
(* cleanup scheduler) either returns or raises; the raised outcomes are    *)
(* bounded by MaxFaults.                                                   *)
(* Spec runs the tracker over a registry of NRecords entries, ScenarioSpec *)
(* runs one pass over three entries, SubmitSpec lets another process       *)
(* register jobs while a pass runs, YarnSpec applies                       *)
(* YarnStatusGetter.get_job_metadata to a response, and ClusterSpec runs   *)
(* one pass over one entry with YarnStatusGetter or K8sStatusGetter as     *)
(* the status provider.  StaleSpec runs the tracker on a registry that      *)
(* may enumerate finalized jobs again, OverlapSpec runs two invocations   *)
(* that overlap, CancelSpec lets a user cancel jobs while passes run, and  *)
(* CalrissianSpec runs CalrissianJobLauncher.launch_job_and_wait           *)
(* (openeogeotrellis/integrations/calrissian.py).                          *)
(***************************************************************************)
EXTENDS Integers, Sequences, FiniteSets, TLC

\* ------------------------------------------------------------------ bounds
NRecords == 2
MaxPasses == 2
MaxFaults == 1
\* the single pass over three records
ScenarioRecords == 3
ScenarioPasses == 1
\* the passes over a registry that goes on enumerating finalized jobs
StaleRecords == 1
StalePasses == 3
\* two invocations that overlap: none is started once OverlapPasses have ended
OverlapRecords == 1
OverlapPasses == 1
\* the passes during which a user cancels jobs
CancelRecords == 1
CancelPasses == 2
\* launch_job_and_wait: the timeouts, the sleeps and the time a read takes, in seconds
MaxTimeout == 3
MaxSleep == 2
MaxReadTime == 1

\* --------------------------------------------------------------- constants
\* openeo_driver.jobregistry.JOB_STATUS values that end a job
TerminalStatuses == {"finished", "error", "canceled"}

\* another status written when the app is not found
JOB_STATUS_CANCELED == "canceled"

\* line 414 and 419: the status written when the app is not found
JOB_STATUS_ERROR == "error"

\* _JobMetadata: the snapshots a status provider can return
Snapshots ==
    { [status |-> "queued",   start_time |-> "none", finish_time |-> "none", usage |-> "none"],
      [status |-> "running",  start_time |-> "t1",   finish_time |-> "none", usage |-> "u1"],
      [status |-> "finished", start_time |-> "t1",   finish_time |-> "t2",   usage |-> "u2"],
      [status |-> "error",    start_time |-> "t1",   finish_time |-> "t2",   usage |-> "u1"],
      [status |-> "canceled", start_time |-> "t1",   finish_time |-> "t2",   usage |-> "none"] }

NoMetadata == [status |-> "none", start_time |-> "none", finish_time |-> "none", usage |-> "none"]

\* what get_job_metadata can raise besides AppNotFound
ProviderErrors == {"YarnAppReportParseException", "HTTPError"}

NoResults == [area |-> "none", sentinelhub |-> -1]

\* what get_results_metadata(job_id, user_id) returns: the metadata the job wrote,
\* with a usage.sentinelhub.value for some jobs and without (-1) for others
ResultsMetadataOf(job_id) ==
    IF job_id % 2 = 1 THEN [area |-> "a1", sentinelhub |-> 3]
                      ELSE [area |-> "a2", sentinelhub |-> -1]

\* ------------------------------------------------------------------- state
VARIABLES
    zk,             \* primary registry: slot -> job record
    ejr,            \* secondary registry: job_id -> [status, started, finished]
    has_ejr,        \* self._elastic_job_registry is not None
    pc,             \* position in update_statuses / _sync_job_status
    fail_fast,      \* argument of the running invocation
    session,        \* the primary registry's context is entered
    acquired,       \* number of zk __enter__ so far
    released,       \* number of zk __exit__ so far
    jobs_to_track,  \* the snapshot returned by get_running_jobs
    idx,            \* loop position in jobs_to_track
    job_metadata,   \* the polled snapshot of the job in progress
    result_metadata,\* the result metadata of the job in progress
    exc,            \* the exception in flight ("none" when none)
    stats,          \* StatsReporter counter of the pass
    reports,        \* summaries reported so far, one per StatsReporter exit
    ops,            \* external calls of the current pass, in order
    scheduled,      \* async cleanup tasks handed over so far
    audit,          \* "marked ... as done" log records so far
    fetched,        \* job_id -> number of get_results_metadata calls that returned
    outcome,        \* how the last invocation ended
    passes,         \* finished invocations
    faults,         \* raised outcomes injected so far
    set_by,         \* job_id -> what wrote its terminal status ("none" when nothing did)
    late,           \* job_ids registered after the snapshot of the pass in progress
    history,        \* per finished invocation: its snapshot, its calls, both registries
    response,       \* the HTTP response YARN gave to YarnStatusGetter.get_job_metadata
    report,         \* the YARN application report being parsed
    yarn_metadata,  \* what parse_application_response made of it
    yarn_outcome,   \* how YarnStatusGetter.get_job_metadata ended ("none" before it ran)
    k8s_resource,   \* what the lookup of the job's SparkApplication resource gives
    kubecost,       \* what the cost query gives
    k8s_metadata,   \* the _JobMetadata of _get_job_status, then of get_job_metadata
    k8s_outcome,    \* how K8sStatusGetter.get_job_metadata ended ("none" before it ran)
    k8s_calls,      \* the requests K8sStatusGetter issued
    suspended,      \* the local variables of an invocation that is not running now
    timeout,        \* argument of CalrissianJobLauncher.launch_job_and_wait
    sleep,          \* argument of launch_job_and_wait
    launch_pc,      \* position in launch_job_and_wait
    creations,      \* number of create_namespaced_job calls so far
    elapsed,        \* timer.elapsed()
    polls,          \* job.status.conditions of every read_namespaced_job, in order
    final_status,   \* "none" for None
    launch_outcome, \* how launch_job_and_wait ended ("none" before it did)
    invocations     \* how many times update_statuses is invoked in all

vars == << zk, ejr, has_ejr, pc, fail_fast, session, acquired, released,
           jobs_to_track, idx, job_metadata, result_metadata, exc, stats,
           reports, ops, scheduled, audit, fetched, outcome, passes, faults,
           set_by, late, history, response, report, yarn_metadata, yarn_outcome,
           k8s_resource, kubecost, k8s_metadata, k8s_outcome, k8s_calls, invocations,
           suspended, timeout, sleep, launch_pc, creations, elapsed, polls, final_status,
           launch_outcome >>

\* the variables of JobTracker and its registries
tracker_vars == << zk, ejr, has_ejr, pc, fail_fast, session, acquired, released,
                   jobs_to_track, idx, job_metadata, result_metadata, exc, stats,
                   reports, ops, scheduled, audit, fetched, outcome, passes, faults,
                   set_by, late, history, invocations, suspended >>

\* the variables of YarnStatusGetter
yarn_vars == << response, report, yarn_metadata, yarn_outcome >>

\* the variables of K8sStatusGetter
k8s_vars == << k8s_resource, kubecost, k8s_metadata, k8s_outcome, k8s_calls >>

\* the variables of CalrissianJobLauncher.launch_job_and_wait
cal_vars == << timeout, sleep, launch_pc, creations, elapsed, polls, final_status,
              launch_outcome >>

\* the entries of the primary registry
Slots == DOMAIN zk

\* ------------------------------------------------------------ job records
JobRecord(shape, job_id, user_id, application_id, status, created, deps, dep_usage) ==
    [ shape |-> shape, job_id |-> job_id, user_id |-> user_id,
      application_id |-> application_id, status |-> status, created |-> created,
      dependency_sources |-> deps, dependency_usage |-> dep_usage,
      started |-> "none", finished |-> "none", usage |-> "none",
      results |-> NoResults ]

\* the records slot i of the registry can hold when a pass starts; a record without
\* dependencies has no dependency_usage (-1)
RecordKinds(i) ==
    { JobRecord("dict", i, "u", "app", "running", "c", <<"s1", "s1", "s2">>, 2),
      JobRecord("dict", i, "u", "app", "queued", "c", <<>>, -1),
      JobRecord("dict", i, "u", "", "created", "c", <<>>, -1),
      JobRecord("dict", i, "u", "", "created", "bad", <<>>, -1),
      JobRecord("dict", 0, "u", "app", "running", "c", <<>>, -1),
      JobRecord("dict", i, "", "app", "running", "c", <<>>, -1),
      JobRecord("str", 0, "", "", "none", "", <<>>, -1) }

\* ----------------------------------------------------------- StatsReporter
Inc(st, k) == IF k \in DOMAIN st THEN [st EXCEPT ![k] = @ + 1] ELSE st @@ (k :> 1)

Put(st, k, v) == IF k \in DOMAIN st THEN [st EXCEPT ![k] = v] ELSE st @@ (k :> v)

Count(st, k) == IF k \in DOMAIN st THEN st[k] ELSE 0

NoStats == [k \in {} |-> 0]

\* ------------------------------------------------------ primary registry
\* a registry that enumerates every entry, whatever its status
RunningJobsAll(reg) ==
    SelectSeq([i \in DOMAIN reg |-> reg[i]], LAMBDA r: r.shape # "absent")

\* get_running_jobs: the records whose status is not terminal, in slot order
RunningJobs(reg) ==
    SelectSeq([i \in DOMAIN reg |-> reg[i]],
              LAMBDA r: r.shape # "absent" /\ r.status \notin TerminalStatuses)

\* set_status(job_id, user_id, status)
ZkSetStatus(reg, job_id, status) == [reg EXCEPT ![job_id].status = status]

\* patch(job_id, user_id, **result_metadata)
ZkPatchResults(reg, job_id, md) == [reg EXCEPT ![job_id].results = md]

\* remove_dependencies(job_id, user_id)
ZkRemoveDependencies(reg, job_id) == [reg EXCEPT ![job_id].dependency_sources = <<>>]

\* patch(job_id, user_id, status=, started=, finished=, usage=)
ZkPatchStatus(reg, job_id, md) ==
    [reg EXCEPT ![job_id].status = md.status,
                ![job_id].started = md.start_time,
                ![job_id].finished = md.finish_time,
                ![job_id].usage = md.usage]

\* ---------------------------------------------------- secondary registry
\* set_status(job_id, status, started=None, finished=None)
EjrSetStatus(reg, job_id, status, started, finished) ==
    [reg EXCEPT ![job_id] = [status |-> status, started |-> started, finished |-> finished]]


\* ------------------------------------------------------------------- Init
\* the registries of n entries a pass can find
Registries(n) ==
    { r \in [1..n -> UNION { RecordKinds(i) : i \in 1..n }] :
        \A i \in 1..n : r[i] \in RecordKinds(i) }

\* ------------------------------------------------------ YarnStatusGetter
\* line 147: epoch_millis / 1000
MillisPerSecond == 1000

\* the startedTime and finishedTime values of an application report: 0, and
\* instants within and after the first second of the epoch
EpochMillis == {0, 1, 999, 1000, 1001, 1999, 2000, 60000}

\* the memorySeconds and vcoreSeconds values of an application report
UsageSeconds == {0, 5}

\* a JSON null, and the JSON number num/den
JsonNull == [null |-> TRUE, num |-> 0, den |-> 1]
JsonNumber(num, den) == [null |-> FALSE, num |-> num, den |-> den]

\* line 154: required_keys
required_keys == {"state", "finalStatus", "startedTime", "finishedTime"}

\* line 174-175: the keys read with report.get
UsageKeys == {"memorySeconds", "vcoreSeconds"}

\* the keys whose value is a number, or null
NumberKeys == {"startedTime", "finishedTime"} \cup UsageKeys

\* the (state, finalStatus) pairs YARN reports for an application
YarnStates ==
    { <<"ACCEPTED", "UNDEFINED">>, <<"RUNNING", "UNDEFINED">>, <<"FINISHED", "SUCCEEDED">>,
      <<"FINISHED", "FAILED">>, <<"KILLED", "KILLED">>, <<"FAILED", "FAILED">> }

\* yarn_state_to_openeo_job_status: finalStatus decides once the application is over
YarnStateToOpeneoJobStatus(state, final_state) ==
    CASE state = "ACCEPTED" -> "queued"
      [] state = "RUNNING" -> "running"
      [] state = "KILLED" \/ final_state = "KILLED" -> "canceled"
      [] final_state = "SUCCEEDED" -> "finished"
      [] OTHER -> "error"

\* the key sets of the reports: complete, without usage, without one or all of
\* the required keys
KeySets ==
    { required_keys \cup u : u \in SUBSET UsageKeys }
        \cup { (required_keys \cup UsageKeys) \ {k} : k \in required_keys }
        \cup { UsageKeys }

\* the values the key k takes in a report with the keys ks of which ns are null
ValuesOf(k, ks, ns, values) == IF k \in ks \ ns THEN values ELSE {0}

\* the reports with the keys ks of which ns are null
ReportsWith(ks, ns) ==
    { [keys |-> ks, nulls |-> ns,
       state |-> IF "state" \in ks THEN sf[1] ELSE "",
       finalStatus |-> IF "finalStatus" \in ks THEN sf[2] ELSE "",
       startedTime |-> s, finishedTime |-> f, memorySeconds |-> m, vcoreSeconds |-> v] :
        sf \in YarnStates,
        s \in ValuesOf("startedTime", ks, ns, EpochMillis),
        f \in ValuesOf("finishedTime", ks, ns, EpochMillis),
        m \in ValuesOf("memorySeconds", ks, ns, UsageSeconds),
        v \in ValuesOf("vcoreSeconds", ks, ns, UsageSeconds) }

\* line 153: the value of "app" in the body when it is a dict
Reports ==
    UNION { UNION { ReportsWith(ks, ns) : ns \in SUBSET (NumberKeys \cap ks) } : ks \in KeySets }

\* line 153: data.get("app", {}) of a body without "app"; also: no report is being parsed
NoReport ==
    [keys |-> {}, nulls |-> {}, state |-> "", finalStatus |-> "", startedTime |-> 0,
     finishedTime |-> 0, memorySeconds |-> 0, vcoreSeconds |-> 0]

\* line 127: what requests.get returns: the status code, whether the body is JSON
\* and a dict, and what its "app" is
Responses ==
    { r \in [status_code : {200, 403, 404, 500},
              body : {"not_json", "not_dict", "dict"},
              app : {"absent", "null", "dict"}] :
        r.body # "dict" => r.app = "absent" }

\* no request was made
NoResponse == [status_code |-> 0, body |-> "not_json", app |-> "absent"]

\* line 127: the reports a response can carry
ReportsOf(r) == IF r.body = "dict" /\ r.app = "dict" THEN Reports ELSE {NoReport}

\* line 145: None
Absent == [present |-> FALSE, seconds |-> 0]

\* line 148: rfc3339.datetime(d) formats d as "%Y-%m-%dT%H:%M:%SZ", the second that
\* holds d; the string is modelled by the number of that second since the epoch
Rfc3339Datetime(seconds) == [present |-> TRUE, seconds |-> seconds]

\* the conversion without the test for 0
MsEpochToDateAlways(epoch_millis) == Rfc3339Datetime(epoch_millis \div MillisPerSecond)

\* line 142-148: _ms_epoch_to_date
MsEpochToDate(epoch_millis) ==
    IF epoch_millis = 0
    THEN Absent
    ELSE Rfc3339Datetime(epoch_millis \div MillisPerSecond)

\* line 152, report.get(key): None when the key is absent or null
ReportGet(r, key, n) == IF key \in r.keys \ r.nulls THEN JsonNumber(n, 1) ELSE JsonNull

\* line 173-190: usage, always with both metrics
YarnUsage(r) ==
    [memory |-> [value |-> ReportGet(r, "memorySeconds", r.memorySeconds), unit |-> "mb-seconds"],
     cpu |-> [value |-> ReportGet(r, "vcoreSeconds", r.vcoreSeconds), unit |-> "cpu-seconds"]]

\* the parser is not in use
NothingParsed ==
    /\ response = NoResponse
    /\ report = NoReport
    /\ yarn_metadata = <<>>
    /\ yarn_outcome = "none"

\* ------------------------------------------------------- K8sStatusGetter
\* line 285: 1024 * 1024
BytesPerMb == 1024 * 1024

\* the applicationState.state values of a SparkApplication
K8sStates == {"", "SUBMITTED", "RUNNING", "COMPLETED", "FAILED"}

\* line 246: K8S_SPARK_APP_STATE.NEW
K8S_SPARK_APP_STATE_NEW == ""

\* k8s_state_to_openeo_job_status
K8sStateToOpeneoJobStatus(app_state) ==
    CASE app_state \in {"", "SUBMITTED"} -> "queued"
      [] app_state = "RUNNING" -> "running"
      [] app_state = "COMPLETED" -> "finished"
      [] OTHER -> "error"

\* line 227-233: what get_namespaced_custom_object does: it raises ApiException with
\* a status, or returns the resource: without "status", with a "status" that lacks a
\* key read at line 241-243, or with a whole one
K8sResources ==
    { [kind |-> "ApiException", status |-> s, state |-> "",
       lastSubmissionAttemptTime |-> "none", terminationTime |-> "none"] : s \in {403, 404, 500} }
    \cup { [kind |-> k, status |-> 200, state |-> "",
            lastSubmissionAttemptTime |-> "none", terminationTime |-> "none"] :
                k \in {"no_status", "partial_status"} }
    \cup { [kind |-> "status", status |-> 200, state |-> s,
            lastSubmissionAttemptTime |-> "t1", terminationTime |-> f] :
                s \in K8sStates, f \in {"none", "t2"} }

\* no lookup was made
NoResource ==
    [kind |-> "none", status |-> 0, state |-> "",
     lastSubmissionAttemptTime |-> "none", terminationTime |-> "none"]

\* line 267-285: how the cost query can fail: requests.get raises, raise_for_status
\* raises, the body is not JSON, fails the test of line 270-274, or lacks a key or
\* a number read at line 283-285
KubecostFailures ==
    {"ConnectionError", "HTTPError", "JSONDecodeError", "K8sException", "KeyError", "TypeError"}

\* the cpuCoreHours and ramByteHours values of a cost report
CpuCoreHours == {0, 2}
RamByteHours == {0, 524288, 2 * BytesPerMb}

\* line 267-279: what the cost query gives
KubecostAnswers ==
    { [failure |-> e, cpuCoreHours |-> 0, ramByteHours |-> 0] : e \in KubecostFailures }
    \cup [failure : {"none"}, cpuCoreHours : CpuCoreHours, ramByteHours : RamByteHours]

\* no query was made
NoKubecost == [failure |-> "none", cpuCoreHours |-> 0, ramByteHours |-> 0]

\* line 289-294: _get_usage returns None
NoUsage == <<>>

\* line 282-288: usage
K8sUsage(cost) ==
    [cpu |-> [value |-> JsonNumber(cost.cpuCoreHours, 1), unit |-> "cpu-hours"],
     memory |-> [value |-> JsonNumber(cost.ramByteHours, BytesPerMb), unit |-> "mb-hours"]]

\* K8sStatusGetter is not in use
NothingAsked ==
    /\ k8s_resource = NoResource
    /\ kubecost = NoKubecost
    /\ k8s_metadata = <<>>
    /\ k8s_outcome = "none"
    /\ k8s_calls = <<>>

\* launch_job_and_wait is not called
NothingLaunched ==
    /\ timeout = 0
    /\ sleep = 0
    /\ launch_pc = "none"
    /\ creations = 0
    /\ elapsed = 0
    /\ polls = <<>>
    /\ final_status = "none"
    /\ launch_outcome = "none"

\* the local variables of update_statuses before it is invoked
IdleLocals ==
    [ pc |-> "idle", fail_fast |-> FALSE, session |-> FALSE, jobs_to_track |-> <<>>,
      idx |-> 0, job_metadata |-> NoMetadata, result_metadata |-> NoResults,
      exc |-> "none", stats |-> NoStats, ops |-> <<>> ]

\* JobTracker and its registries before the first invocation
Idle ==
    /\ suspended = IdleLocals
    /\ ejr = [i \in Slots |-> [status |-> "none", started |-> "none", finished |-> "none"]]
    /\ set_by = [i \in Slots |-> "none"]
    /\ late = {}
    /\ history = <<>>
    /\ pc = "idle"
    /\ fail_fast = FALSE
    /\ session = FALSE
    /\ acquired = 0
    /\ released = 0
    /\ jobs_to_track = <<>>
    /\ idx = 0
    /\ job_metadata = NoMetadata
    /\ result_metadata = NoResults
    /\ exc = "none"
    /\ stats = NoStats
    /\ reports = <<>>
    /\ ops = <<>>
    /\ scheduled = <<>>
    /\ audit = <<>>
    /\ fetched = [i \in Slots |-> 0]
    /\ outcome = "none"
    /\ passes = 0
    /\ faults = 0

Init ==
    /\ zk \in Registries(NRecords) /\ invocations = MaxPasses
    /\ has_ejr \in BOOLEAN
    /\ NothingParsed
    /\ NothingAsked
    /\ NothingLaunched
    /\ Idle

\* --------------------------------------------------------------- helpers
\* the snapshot iterated from its end
job_info_reversed == jobs_to_track[Len(jobs_to_track) + 1 - idx]

\* line 335: the record of the iteration
job_info == jobs_to_track[idx]

\* the validation without the user_id test
IsValidJobInfoNoUser(r) == r.shape = "dict" /\ r.job_id # 0

\* line 336-340: isinstance(job_info, dict) and job_info.get("job_id") and job_info.get("user_id")
IsValidJobInfo(r) == r.shape = "dict" /\ r.job_id # 0 /\ r.user_id # ""

Call(op, arg, result) == << op, idx, arg, result >>

Logged(entry) == ops' = Append(ops, entry)

\* an external call raises: one more injected failure
Raises == faults < MaxFaults /\ faults' = faults + 1

Returns == faults' = faults

\* the exception leaves _sync_job_status and reaches the except clause of the loop
Throw(e) == exc' = e /\ pc' = "except"

\* the loop goes on with the next record
NextRecord == idx' = idx + 1 /\ pc' = "loop"

\* line 448-450: list(set(ZkJobRegistry.get_dependency_sources(job_info)))
DependencySources(r) == { r.dependency_sources[k] : k \in DOMAIN r.dependency_sources }

\* the units of the result metadata alone
SentinelhubUnitsOfResults(md, r) == IF md.sentinelhub = -1 THEN 0 ELSE md.sentinelhub

\* line 458-479: float(Decimal(sentinelhub_processing_units) + sentinelhub_batch_processing_units),
\* with .get("value", 0.0) for result metadata without the entry (-1) and
\* get_dependency_usage(job_info) or Decimal("0.0") for a record without the usage (-1)
SentinelhubUnits(md, r) ==
    (IF md.sentinelhub = -1 THEN 0 ELSE md.sentinelhub)
        + (IF r.dependency_usage = -1 THEN 0 ELSE r.dependency_usage)

\* ------------------------------------------------------- update_statuses
\* a pass that starts without entering the context of the primary registry
EnterWithoutSession(ff) ==
    /\ pc = "idle"
    /\ passes < invocations
    /\ fail_fast' = ff
    /\ stats' = NoStats
    /\ ops' = <<>>
    /\ jobs_to_track' = <<>>
    /\ idx' = 0
    /\ exc' = "none"
    /\ outcome' = "running"
    /\ late' = {}
    /\ pc' = "get_running_jobs"
    /\ UNCHANGED << zk, ejr, has_ejr, invocations, suspended, set_by, history, yarn_vars, k8s_vars, cal_vars,
                    session, acquired, released, job_metadata, result_metadata,
                    reports, scheduled, audit, fetched, passes, faults >>

\* line 324-328: entering the with block
Enter(ff) ==
    /\ pc = "idle"
    /\ passes < invocations
    /\ fail_fast' = ff
    /\ session' = TRUE
    /\ acquired' = acquired + 1
    /\ stats' = NoStats
    /\ ops' = <<>>
    /\ jobs_to_track' = <<>>
    /\ idx' = 0
    /\ exc' = "none"
    /\ outcome' = "running"
    /\ late' = {}
    /\ pc' = "get_running_jobs"
    /\ UNCHANGED << zk, ejr, has_ejr, invocations, suspended, set_by, history, yarn_vars, k8s_vars, cal_vars,
                    released, job_metadata, result_metadata,
                    reports, scheduled, audit, fetched, passes, faults >>

\* line 330-333
GetRunningJobs ==
    /\ pc = "get_running_jobs"
    /\ jobs_to_track' = RunningJobs(zk)
    /\ stats' = Put(stats, <<"collected jobs">>, Len(RunningJobs(zk)))
    /\ idx' = 1
    /\ pc' = "loop"
    /\ Logged(<< "zk.get_running_jobs", 0, "", "ok" >>)
    /\ Returns
    /\ UNCHANGED << zk, ejr, has_ejr, invocations, suspended, set_by, late, history, yarn_vars, k8s_vars, cal_vars,
                    fail_fast, session, acquired, released,
                    job_metadata, result_metadata, exc, reports, scheduled,
                    audit, fetched, outcome, passes >>

\* line 331 raising: the exception leaves the with block
GetRunningJobsRaises ==
    /\ pc = "get_running_jobs"
    /\ Raises
    /\ exc' = "RegistryError"
    /\ pc' = "exit"
    /\ Logged(<< "zk.get_running_jobs", 0, "", "raise" >>)
    /\ UNCHANGED << zk, ejr, has_ejr, invocations, suspended, set_by, late, history, yarn_vars, k8s_vars, cal_vars,
                    fail_fast, session, acquired, released,
                    jobs_to_track, idx, job_metadata, result_metadata, stats,
                    reports, scheduled, audit, fetched, outcome, passes >>

\* the loop ending one record early
LoopDoneEarly ==
    /\ pc = "loop"
    /\ idx >= Len(jobs_to_track)
    /\ pc' = "exit"
    /\ UNCHANGED << zk, ejr, has_ejr, invocations, suspended, set_by, late, history, yarn_vars, k8s_vars, cal_vars,
                    fail_fast, session, acquired, released, jobs_to_track, idx,
                    job_metadata, result_metadata, exc, stats, reports, ops, scheduled,
                    audit, fetched, outcome, passes, faults >>

\* the loop going on with the jobs that entered the running set during the pass
LoopDoneUnlessNew ==
    /\ pc = "loop"
    /\ idx > Len(jobs_to_track)
    /\ LET seen == { jobs_to_track[i].job_id : i \in DOMAIN jobs_to_track }
           fresh == SelectSeq(RunningJobs(zk), LAMBDA r : r.job_id \notin seen \cup {0})
       IN  /\ jobs_to_track' = jobs_to_track \o fresh
           /\ pc' = IF fresh = <<>> THEN "exit" ELSE "loop"
    /\ UNCHANGED << zk, ejr, has_ejr, invocations, suspended, set_by, late, history, yarn_vars, k8s_vars, cal_vars,
                    fail_fast, session, acquired, released, idx, job_metadata,
                    result_metadata, exc, stats, reports, ops, scheduled, audit,
                    fetched, outcome, passes, faults >>

\* line 335: the for loop is exhausted
LoopDone ==
    /\ pc = "loop"
    /\ idx > Len(jobs_to_track)
    /\ pc' = "exit"
    /\ UNCHANGED << zk, ejr, has_ejr, invocations, suspended, set_by, late, history, yarn_vars, k8s_vars, cal_vars,
                    fail_fast, session, acquired, released,
                    jobs_to_track, idx, job_metadata, result_metadata, exc, stats,
                    reports, ops, scheduled, audit, fetched, outcome, passes, faults >>

\* line 336-345
InvalidJobInfo ==
    /\ pc = "loop"
    /\ idx <= Len(jobs_to_track)
    /\ ~IsValidJobInfo(job_info)
    /\ stats' = Inc(stats, <<"invalid job_info">>)
    /\ Logged(Call("visit", "invalid", "ok"))
    /\ NextRecord
    /\ UNCHANGED << zk, ejr, has_ejr, invocations, suspended, set_by, late, history, yarn_vars, k8s_vars, cal_vars,
                    fail_fast, session, acquired, released,
                    jobs_to_track, job_metadata, result_metadata, exc, reports,
                    scheduled, audit, fetched, outcome, passes, faults >>

\* line 356-358: rfc3339.parse_datetime(created) accepts "%Y-%m-%dT%H:%M:%SZ"
\* (with or without fractional seconds) and raises ValueError on anything else;
\* an empty or missing created is not parsed
ParsesAsDatetime(created) == created # "bad"

\* line 351-366
SkipNoApplicationId ==
    /\ pc = "loop"
    /\ idx <= Len(jobs_to_track)
    /\ IsValidJobInfo(job_info)
    /\ job_info.application_id = ""
    /\ job_info.created # "" => ParsesAsDatetime(job_info.created)
    /\ stats' = Inc(stats, <<"skip due to no application_id", job_info.status>>)
    /\ Logged(Call("visit", "skip", "ok"))
    /\ NextRecord
    /\ UNCHANGED << zk, ejr, has_ejr, invocations, suspended, set_by, late, history, yarn_vars, k8s_vars, cal_vars,
                    fail_fast, session, acquired, released,
                    jobs_to_track, job_metadata, result_metadata, exc, reports,
                    scheduled, audit, fetched, outcome, passes, faults >>

\* line 356-358 raising inside the try of line 350: the age of the record is
\* computed before it is skipped
SkipNoApplicationIdRaises ==
    /\ pc = "loop"
    /\ idx <= Len(jobs_to_track)
    /\ IsValidJobInfo(job_info)
    /\ job_info.application_id = ""
    /\ job_info.created # ""
    /\ ~ParsesAsDatetime(job_info.created)
    /\ Logged(Call("visit", "skip", "raise"))
    /\ Throw("ValueError")
    /\ UNCHANGED << zk, ejr, has_ejr, invocations, suspended, set_by, late, history, yarn_vars, k8s_vars, cal_vars, fail_fast,
                    session, acquired, released, jobs_to_track, idx, job_metadata,
                    result_metadata, stats, reports, scheduled, audit, fetched,
                    outcome, passes, faults >>

\* line 368-375 and 396-403: _sync_job_status is entered
StartSync ==
    /\ pc = "loop"
    /\ idx <= Len(jobs_to_track)
    /\ IsValidJobInfo(job_info)
    /\ job_info.application_id # ""
    /\ stats' = Inc(stats, <<"job with previous_status", job_info.status>>)
    /\ Logged(Call("visit", "sync", "ok"))
    /\ job_metadata' = NoMetadata
    /\ result_metadata' = NoResults
    /\ pc' = "get_job_metadata"
    /\ UNCHANGED << zk, ejr, has_ejr, invocations, suspended, set_by, late, history, yarn_vars, k8s_vars, cal_vars,
                    fail_fast, session, acquired, released,
                    jobs_to_track, idx, exc, reports, scheduled, audit, fetched,
                    outcome, passes, faults >>


\* ------------------------------------------------------ _sync_job_status
\* line 424-432: the comparison with the previous status
CompareStatsSummaryOnly(st, previous_status, new_status) ==
    IF previous_status # new_status
    THEN Inc(st, <<"status change">>)
    ELSE Inc(st, <<"status same">>)

\* line 424-432
CompareStats(st, previous_status, new_status) ==
    IF previous_status # new_status
    THEN Inc(Inc(st, <<"status change">>), <<"status change", previous_status, new_status>>)
    ELSE Inc(Inc(st, <<"status same">>), <<"status same", new_status>>)

\* the finalize steps started for FINISHED and CANCELED only
IsFinalNoError(status) == status \in {"finished", "canceled"}

\* line 435-440: the test that starts the finalize steps
IsFinal(status) == status \in TerminalStatuses

FinalStats(st, status) ==
    IF IsFinal(status) THEN Inc(st, <<"reached final status", status>>) ELSE st

\* line 405-410 and 424-440: the provider returns a snapshot
GetJobMetadata(md) ==
    /\ pc = "get_job_metadata"
    /\ job_metadata' = md
    /\ stats' = FinalStats(
                    CompareStats(Inc(Inc(stats, <<"get metadata attempt">>), <<"new metadata">>),
                                 job_info.status, md.status),
                    md.status)
    /\ Logged(Call("get_job_metadata", md.status, "ok"))
    /\ pc' = IF IsFinal(md.status) THEN "get_results_metadata" ELSE "patch_status"
    /\ Returns
    /\ UNCHANGED << zk, ejr, has_ejr, invocations, suspended, set_by, late, history, yarn_vars, k8s_vars, cal_vars,
                    fail_fast, session, acquired, released,
                    jobs_to_track, idx, result_metadata, exc, reports, scheduled,
                    audit, fetched, outcome, passes >>

\* the attempt counted only after the provider has answered
GetJobMetadataAppNotFoundUncounted ==
    /\ pc = "get_job_metadata"
    /\ Logged(Call("get_job_metadata", "AppNotFound", "raise"))
    /\ pc' = "app_not_found"
    /\ Returns
    /\ UNCHANGED << zk, ejr, has_ejr, invocations, suspended, set_by, late, history, yarn_vars, k8s_vars, cal_vars,
                    fail_fast, session, acquired, released, stats,
                    jobs_to_track, idx, job_metadata, result_metadata, exc, reports,
                    scheduled, audit, fetched, outcome, passes >>

\* line 411-412: the provider raises AppNotFound
GetJobMetadataAppNotFound ==
    /\ pc = "get_job_metadata"
    /\ stats' = Inc(stats, <<"get metadata attempt">>)
    /\ Logged(Call("get_job_metadata", "AppNotFound", "raise"))
    /\ pc' = "app_not_found"
    /\ Returns
    /\ UNCHANGED << zk, ejr, has_ejr, invocations, suspended, set_by, late, history, yarn_vars, k8s_vars, cal_vars,
                    fail_fast, session, acquired, released,
                    jobs_to_track, idx, job_metadata, result_metadata, exc, reports,
                    scheduled, audit, fetched, outcome, passes >>

\* an except clause that takes every exception of the provider for AppNotFound
GetJobMetadataRaisesCaught(e) ==
    /\ pc = "get_job_metadata"
    /\ Raises
    /\ stats' = Inc(stats, <<"get metadata attempt">>)
    /\ Logged(Call("get_job_metadata", e, "raise"))
    /\ pc' = "app_not_found"
    /\ UNCHANGED << zk, ejr, has_ejr, invocations, suspended, set_by, late, history, yarn_vars, k8s_vars, cal_vars,
                    fail_fast, session, acquired, released,
                    jobs_to_track, idx, job_metadata, result_metadata, exc, reports,
                    scheduled, audit, fetched, outcome, passes >>

\* line 407-409: the provider raises anything else, which no clause of line 405-422 catches
GetJobMetadataRaises(e) ==
    /\ pc = "get_job_metadata"
    /\ Raises
    /\ stats' = Inc(stats, <<"get metadata attempt">>)
    /\ Logged(Call("get_job_metadata", e, "raise"))
    /\ Throw(e)
    /\ UNCHANGED << zk, ejr, has_ejr, invocations, suspended, set_by, late, history, yarn_vars, k8s_vars, cal_vars,
                    fail_fast, session, acquired, released,
                    jobs_to_track, idx, job_metadata, result_metadata, reports,
                    scheduled, audit, fetched, outcome, passes >>

\* line 414
AppNotFoundSetStatus ==
    /\ pc = "app_not_found"
    /\ zk' = ZkSetStatus(zk, job_info.job_id, JOB_STATUS_ERROR)
    /\ set_by' = [set_by EXCEPT ![job_info.job_id] = "app_not_found"]
    /\ Logged(Call("zk.set_status", JOB_STATUS_ERROR, "ok"))
    /\ pc' = "app_not_found_ejr"
    /\ Returns
    /\ UNCHANGED << ejr, has_ejr, invocations, suspended, late, history, yarn_vars, k8s_vars, cal_vars,
                    fail_fast, session, acquired, released,
                    jobs_to_track, idx, job_metadata, result_metadata, exc, stats,
                    reports, scheduled, audit, fetched, outcome, passes >>

AppNotFoundSetStatusRaises ==
    /\ pc = "app_not_found"
    /\ Raises
    /\ Logged(Call("zk.set_status", JOB_STATUS_ERROR, "raise"))
    /\ Throw("RegistryError")
    /\ UNCHANGED << zk, ejr, has_ejr, invocations, suspended, set_by, late, history, yarn_vars, k8s_vars, cal_vars,
                    fail_fast, session, acquired, released,
                    jobs_to_track, idx, job_metadata, result_metadata, stats,
                    reports, scheduled, audit, fetched, outcome, passes >>

\* a with block that lets the exception through
JustLogErrorsReraising == "reraise"

\* ElasticJobRegistry.just_log_errors: what the with block does with an exception
\* raised inside it (line 415 and 491)
JustLogErrors == "swallow"

\* line 415-422, the secondary registry being configured and answering
AppNotFoundEjr ==
    /\ pc = "app_not_found_ejr"
    /\ has_ejr
    /\ ejr' = EjrSetStatus(ejr, job_info.job_id, JOB_STATUS_ERROR, "none", "none")
    /\ Logged(Call("ejr.set_status", JOB_STATUS_ERROR, "ok"))
    /\ stats' = Inc(stats, <<"app not found">>)
    /\ NextRecord
    /\ Returns
    /\ UNCHANGED << zk, has_ejr, invocations, suspended, set_by, late, history, yarn_vars, k8s_vars, cal_vars,
                    fail_fast, session, acquired, released,
                    jobs_to_track, job_metadata, result_metadata, exc, reports,
                    scheduled, audit, fetched, outcome, passes >>

\* line 415-422, the secondary registry raising
AppNotFoundEjrRaises ==
    /\ pc = "app_not_found_ejr"
    /\ has_ejr
    /\ Raises
    /\ Logged(Call("ejr.set_status", JOB_STATUS_ERROR, "raise"))
    /\ IF JustLogErrors = "swallow"
       THEN /\ stats' = Inc(stats, <<"app not found">>)
            /\ NextRecord
            /\ exc' = exc
       ELSE /\ stats' = stats
            /\ idx' = idx
            /\ Throw("EjrError")
    /\ UNCHANGED << zk, ejr, has_ejr, invocations, suspended, set_by, late, history, yarn_vars, k8s_vars, cal_vars,
                    fail_fast, session, acquired, released,
                    jobs_to_track, job_metadata, result_metadata, reports,
                    scheduled, audit, fetched, outcome, passes >>

\* a handler without the return of line 422: the sync goes on to the patch
AppNotFoundNoEjrGoesOn ==
    /\ pc = "app_not_found_ejr"
    /\ ~has_ejr
    /\ stats' = Inc(stats, <<"app not found">>)
    /\ pc' = "patch_status"
    /\ UNCHANGED << zk, ejr, has_ejr, invocations, suspended, set_by, late, history, yarn_vars, k8s_vars, cal_vars,
                    fail_fast, session, acquired, released, idx,
                    jobs_to_track, job_metadata, result_metadata, exc, reports, ops,
                    scheduled, audit, fetched, outcome, passes, faults >>

\* line 416, no secondary registry
AppNotFoundNoEjr ==
    /\ pc = "app_not_found_ejr"
    /\ ~has_ejr
    /\ stats' = Inc(stats, <<"app not found">>)
    /\ NextRecord
    /\ UNCHANGED << zk, ejr, has_ejr, invocations, suspended, set_by, late, history, yarn_vars, k8s_vars, cal_vars,
                    fail_fast, session, acquired, released,
                    jobs_to_track, job_metadata, result_metadata, exc, reports, ops,
                    scheduled, audit, fetched, outcome, passes, faults >>


\* line 441
GetResultsMetadata ==
    /\ pc = "get_results_metadata"
    /\ result_metadata' = ResultsMetadataOf(job_info.job_id)
    /\ fetched' = [fetched EXCEPT ![job_info.job_id] = @ + 1]
    /\ Logged(Call("get_results_metadata", "", "ok"))
    /\ pc' = "patch_results"
    /\ Returns
    /\ UNCHANGED << zk, ejr, has_ejr, invocations, suspended, set_by, late, history, yarn_vars, k8s_vars, cal_vars,
                    fail_fast, session, acquired, released,
                    jobs_to_track, idx, job_metadata, exc, stats, reports,
                    scheduled, audit, outcome, passes >>

GetResultsMetadataRaises ==
    /\ pc = "get_results_metadata"
    /\ Raises
    /\ fetched' = fetched
    /\ Logged(Call("get_results_metadata", "", "raise"))
    /\ Throw("ResultsError")
    /\ UNCHANGED << zk, ejr, has_ejr, invocations, suspended, set_by, late, history, yarn_vars, k8s_vars, cal_vars,
                    fail_fast, session, acquired, released,
                    jobs_to_track, idx, job_metadata, result_metadata, stats,
                    reports, scheduled, audit, outcome, passes >>

\* line 443
PatchResults ==
    /\ pc = "patch_results"
    /\ zk' = ZkPatchResults(zk, job_info.job_id, result_metadata)
    /\ Logged(Call("zk.patch_results", "", "ok"))
    /\ pc' = "remove_dependencies"
    /\ Returns
    /\ UNCHANGED << ejr, has_ejr, invocations, suspended, set_by, late, history, yarn_vars, k8s_vars, cal_vars,
                    fail_fast, session, acquired, released,
                    jobs_to_track, idx, job_metadata, result_metadata, exc, stats,
                    reports, scheduled, audit, fetched, outcome, passes >>

PatchResultsRaises ==
    /\ pc = "patch_results"
    /\ Raises
    /\ Logged(Call("zk.patch_results", "", "raise"))
    /\ Throw("RegistryError")
    /\ UNCHANGED << zk, ejr, has_ejr, invocations, suspended, set_by, late, history, yarn_vars, k8s_vars, cal_vars,
                    fail_fast, session, acquired, released,
                    jobs_to_track, idx, job_metadata, result_metadata, stats,
                    reports, scheduled, audit, fetched, outcome, passes >>

\* line 445
RemoveDependencies ==
    /\ pc = "remove_dependencies"
    /\ zk' = ZkRemoveDependencies(zk, job_info.job_id)
    /\ Logged(Call("zk.remove_dependencies", "", "ok"))
    /\ pc' = "schedule"
    /\ Returns
    /\ UNCHANGED << ejr, has_ejr, invocations, suspended, set_by, late, history, yarn_vars, k8s_vars, cal_vars,
                    fail_fast, session, acquired, released,
                    jobs_to_track, idx, job_metadata, result_metadata, exc, stats,
                    reports, scheduled, audit, fetched, outcome, passes >>

RemoveDependenciesRaises ==
    /\ pc = "remove_dependencies"
    /\ Raises
    /\ Logged(Call("zk.remove_dependencies", "", "raise"))
    /\ Throw("RegistryError")
    /\ UNCHANGED << zk, ejr, has_ejr, invocations, suspended, set_by, late, history, yarn_vars, k8s_vars, cal_vars,
                    fail_fast, session, acquired, released,
                    jobs_to_track, idx, job_metadata, result_metadata, stats,
                    reports, scheduled, audit, fetched, outcome, passes >>

\* scheduling whatever the sources are
ShouldScheduleAlways(sources) == TRUE

\* line 452: if dependency_sources
ShouldSchedule(sources) == sources # {}

\* line 448-455, the scheduler accepting the task
ScheduleCleanup ==
    /\ pc = "schedule"
    /\ ShouldSchedule(DependencySources(job_info))
    /\ scheduled' = Append(scheduled, [job_id |-> job_info.job_id,
                                       sources |-> DependencySources(job_info)])
    /\ Logged(Call("schedule_delete", "", "ok"))
    /\ pc' = "log_usage"
    /\ Returns
    /\ UNCHANGED << zk, ejr, has_ejr, invocations, suspended, set_by, late, history, yarn_vars, k8s_vars, cal_vars,
                    fail_fast, session, acquired, released,
                    jobs_to_track, idx, job_metadata, result_metadata, exc, stats,
                    reports, audit, fetched, outcome, passes >>

ScheduleCleanupRaises ==
    /\ pc = "schedule"
    /\ ShouldSchedule(DependencySources(job_info))
    /\ Raises
    /\ Logged(Call("schedule_delete", "", "raise"))
    /\ Throw("SchedulerError")
    /\ UNCHANGED << zk, ejr, has_ejr, invocations, suspended, set_by, late, history, yarn_vars, k8s_vars, cal_vars,
                    fail_fast, session, acquired, released,
                    jobs_to_track, idx, job_metadata, result_metadata, stats,
                    reports, scheduled, audit, fetched, outcome, passes >>

\* line 452, nothing to clean up
ScheduleNothing ==
    /\ pc = "schedule"
    /\ ~ShouldSchedule(DependencySources(job_info))
    /\ pc' = "log_usage"
    /\ UNCHANGED << zk, ejr, has_ejr, invocations, suspended, set_by, late, history, yarn_vars, k8s_vars, cal_vars,
                    fail_fast, session, acquired, released,
                    jobs_to_track, idx, job_metadata, result_metadata, exc, stats,
                    reports, ops, scheduled, audit, fetched, outcome, passes, faults >>

\* line 457-481
LogUsage ==
    /\ pc = "log_usage"
    /\ audit' = Append(audit, [job_id |-> job_info.job_id,
                               area |-> result_metadata.area,
                               sentinelhub |-> SentinelhubUnits(result_metadata, job_info)])
    /\ pc' = "patch_status"
    /\ UNCHANGED << zk, ejr, has_ejr, invocations, suspended, set_by, late, history, yarn_vars, k8s_vars, cal_vars,
                    fail_fast, session, acquired, released,
                    jobs_to_track, idx, job_metadata, result_metadata, exc, stats,
                    reports, ops, scheduled, fetched, outcome, passes, faults >>

\* the patch made only when the status changed
PatchStatusIfChanged ==
    /\ pc = "patch_status"
    /\ zk' = IF job_info.status # job_metadata.status
             THEN ZkPatchStatus(zk, job_info.job_id, job_metadata)
             ELSE zk
    /\ set_by' = IF job_metadata.status \in TerminalStatuses
                 THEN [set_by EXCEPT ![job_info.job_id] = "patch"]
                 ELSE set_by
    /\ Logged(Call("zk.patch_status", job_metadata.status, "ok"))
    /\ pc' = "ejr_set_status"
    /\ Returns
    /\ UNCHANGED << ejr, has_ejr, invocations, suspended, late, history, yarn_vars, k8s_vars, cal_vars,
                    fail_fast, session, acquired, released,
                    jobs_to_track, idx, job_metadata, result_metadata, exc, stats,
                    reports, scheduled, audit, fetched, outcome, passes >>

\* the patch carrying the start time only when the status changed
PatchStatusStartOnChange ==
    /\ pc = "patch_status"
    /\ zk' = ZkPatchStatus(zk, job_info.job_id,
                           IF job_info.status # job_metadata.status
                           THEN job_metadata
                           ELSE [job_metadata EXCEPT !.start_time = "none"])
    /\ set_by' = IF job_metadata.status \in TerminalStatuses
                 THEN [set_by EXCEPT ![job_info.job_id] = "patch"]
                 ELSE set_by
    /\ Logged(Call("zk.patch_status", job_metadata.status, "ok"))
    /\ pc' = "ejr_set_status"
    /\ Returns
    /\ UNCHANGED << ejr, has_ejr, invocations, suspended, late, history, yarn_vars, k8s_vars, cal_vars, fail_fast,
                    session, acquired, released, jobs_to_track, idx, job_metadata,
                    result_metadata, exc, stats, reports, scheduled, audit, fetched,
                    outcome, passes >>

\* a patch that leaves alone an entry whose status in the registry is terminal
PatchStatusKeepsTerminal ==
    /\ pc = "patch_status"
    /\ zk' = IF zk[job_info.job_id].status \in TerminalStatuses
             THEN zk
             ELSE ZkPatchStatus(zk, job_info.job_id, job_metadata)
    /\ set_by' = IF job_metadata.status \in TerminalStatuses /\ zk' # zk
                 THEN [set_by EXCEPT ![job_info.job_id] = "patch"]
                 ELSE set_by
    /\ Logged(Call("zk.patch_status", job_metadata.status, "ok"))
    /\ pc' = "ejr_set_status"
    /\ Returns
    /\ UNCHANGED << ejr, has_ejr, invocations, suspended, late, history, yarn_vars, k8s_vars, cal_vars,
                    fail_fast, session, acquired, released,
                    jobs_to_track, idx, job_metadata, result_metadata, exc, stats,
                    reports, scheduled, audit, fetched, outcome, passes >>

\* line 483-490
PatchStatus ==
    /\ pc = "patch_status"
    /\ zk' = ZkPatchStatus(zk, job_info.job_id, job_metadata)
    /\ set_by' = IF job_metadata.status \in TerminalStatuses
                 THEN [set_by EXCEPT ![job_info.job_id] = "patch"]
                 ELSE set_by
    /\ Logged(Call("zk.patch_status", job_metadata.status, "ok"))
    /\ pc' = "ejr_set_status"
    /\ Returns
    /\ UNCHANGED << ejr, has_ejr, invocations, suspended, late, history, yarn_vars, k8s_vars, cal_vars,
                    fail_fast, session, acquired, released,
                    jobs_to_track, idx, job_metadata, result_metadata, exc, stats,
                    reports, scheduled, audit, fetched, outcome, passes >>

\* a patch whose failure is logged and followed by the mirror all the same
PatchStatusRaisesSwallowed ==
    /\ pc = "patch_status"
    /\ Raises
    /\ Logged(Call("zk.patch_status", job_metadata.status, "raise"))
    /\ pc' = "ejr_set_status"
    /\ UNCHANGED << zk, ejr, has_ejr, invocations, suspended, set_by, late, history, yarn_vars, k8s_vars, cal_vars,
                    fail_fast, session, acquired, released, exc,
                    jobs_to_track, idx, job_metadata, result_metadata, stats,
                    reports, scheduled, audit, fetched, outcome, passes >>

\* line 483-490, the primary registry raising
PatchStatusRaises ==
    /\ pc = "patch_status"
    /\ Raises
    /\ Logged(Call("zk.patch_status", job_metadata.status, "raise"))
    /\ Throw("RegistryError")
    /\ UNCHANGED << zk, ejr, has_ejr, invocations, suspended, set_by, late, history, yarn_vars, k8s_vars, cal_vars,
                    fail_fast, session, acquired, released,
                    jobs_to_track, idx, job_metadata, result_metadata, stats,
                    reports, scheduled, audit, fetched, outcome, passes >>

\* line 491-501, the secondary registry being configured and answering
SyncEjr ==
    /\ pc = "ejr_set_status"
    /\ has_ejr
    /\ ejr' = EjrSetStatus(ejr, job_info.job_id, job_metadata.status,
                           job_metadata.start_time, job_metadata.finish_time)
    /\ Logged(Call("ejr.set_status", job_metadata.status, "ok"))
    /\ NextRecord
    /\ Returns
    /\ UNCHANGED << zk, has_ejr, invocations, suspended, set_by, late, history, yarn_vars, k8s_vars, cal_vars,
                    fail_fast, session, acquired, released,
                    jobs_to_track, job_metadata, result_metadata, exc, stats,
                    reports, scheduled, audit, fetched, outcome, passes >>

\* line 491-501, the secondary registry raising
SyncEjrRaises ==
    /\ pc = "ejr_set_status"
    /\ has_ejr
    /\ Raises
    /\ Logged(Call("ejr.set_status", job_metadata.status, "raise"))
    /\ IF JustLogErrors = "swallow"
       THEN NextRecord /\ exc' = exc
       ELSE idx' = idx /\ Throw("EjrError")
    /\ UNCHANGED << zk, ejr, has_ejr, invocations, suspended, set_by, late, history, yarn_vars, k8s_vars, cal_vars,
                    fail_fast, session, acquired, released,
                    jobs_to_track, job_metadata, result_metadata, stats, reports,
                    scheduled, audit, fetched, outcome, passes >>

\* line 494, no secondary registry
SyncNoEjr ==
    /\ pc = "ejr_set_status"
    /\ ~has_ejr
    /\ NextRecord
    /\ UNCHANGED << zk, ejr, has_ejr, invocations, suspended, set_by, late, history, yarn_vars, k8s_vars, cal_vars,
                    fail_fast, session, acquired, released,
                    jobs_to_track, job_metadata, result_metadata, exc, stats,
                    reports, ops, scheduled, audit, fetched, outcome, passes, faults >>

\* ------------------------------------------- update_statuses, continued
\* the except clause re-raising whatever fail_fast says
ReraisesAlways(ff) == TRUE

\* the except clause never re-raising
ReraisesNever(ff) == FALSE

\* line 382-383: what the except clause does after counting
Reraises(ff) == ff

\* the except clause re-raising under fail_fast before it counts the failure
ExceptHandlerRaisesFirst ==
    /\ pc = "except"
    /\ stats' = IF fail_fast THEN stats ELSE Inc(stats, <<"failed sync">>)
    /\ IF fail_fast
       THEN /\ pc' = "exit"
            /\ UNCHANGED << idx, exc >>
       ELSE /\ NextRecord
            /\ exc' = "none"
    /\ UNCHANGED << zk, ejr, has_ejr, invocations, suspended, set_by, late, history, yarn_vars, k8s_vars, cal_vars, fail_fast,
                    session, acquired, released, jobs_to_track, job_metadata,
                    result_metadata, reports, ops, scheduled, audit, fetched, outcome,
                    passes, faults >>

\* line 376-383
ExceptHandler ==
    /\ pc = "except"
    /\ stats' = Inc(stats, <<"failed sync">>)
    /\ IF Reraises(fail_fast)
       THEN /\ pc' = "exit"
            /\ UNCHANGED << idx, exc >>
       ELSE /\ NextRecord
            /\ exc' = "none"
    /\ UNCHANGED << zk, ejr, has_ejr, invocations, suspended, set_by, late, history, yarn_vars, k8s_vars, cal_vars,
                    fail_fast, session, acquired, released,
                    jobs_to_track, job_metadata, result_metadata, reports, ops,
                    scheduled, audit, fetched, outcome, passes, faults >>

\* the session released on normal return only
SessionKeptOnException(e) == e # "none"

\* line 326-328: what leaving the with block does to the registry session
SessionAfterExit(e) == FALSE

\* StatsReporter.__exit__: the summary is reported whether or not an exception
\* is leaving the block
ReportsOnExit(e) == TRUE

\* line 326-328: leaving the with block, by return or by exception
Exit ==
    /\ pc = "exit"
    /\ reports' = IF ReportsOnExit(exc) THEN Append(reports, stats) ELSE reports
    /\ session' = SessionAfterExit(exc)
    /\ released' = IF SessionAfterExit(exc) THEN released ELSE released + 1
    /\ outcome' = IF exc = "none" THEN "returned" ELSE exc
    /\ passes' = passes + 1
    /\ history' = Append(history, [jobs |-> jobs_to_track, ops |-> ops, zk |-> zk,
                                      ejr |-> ejr, late |-> late])
    /\ pc' = "idle"
    /\ UNCHANGED << zk, ejr, has_ejr, invocations, suspended, set_by, late, yarn_vars, k8s_vars, cal_vars,
                    fail_fast, acquired, jobs_to_track, idx,
                    job_metadata, result_metadata, exc, stats, ops, scheduled,
                    audit, fetched, faults >>

\* the steps of JobTracker but for the answer of the status provider
TrackerSteps ==
    \/ \E ff \in BOOLEAN : Enter(ff)
    \/ GetRunningJobs
    \/ GetRunningJobsRaises
    \/ LoopDone
    \/ InvalidJobInfo
    \/ SkipNoApplicationId
    \/ SkipNoApplicationIdRaises
    \/ StartSync
    \/ AppNotFoundSetStatus
    \/ AppNotFoundSetStatusRaises
    \/ AppNotFoundEjr
    \/ AppNotFoundEjrRaises
    \/ AppNotFoundNoEjr
    \/ GetResultsMetadata
    \/ GetResultsMetadataRaises
    \/ PatchResults
    \/ PatchResultsRaises
    \/ RemoveDependencies
    \/ RemoveDependenciesRaises
    \/ ScheduleCleanup
    \/ ScheduleCleanupRaises
    \/ ScheduleNothing
    \/ LogUsage
    \/ PatchStatus
    \/ PatchStatusRaises
    \/ SyncEjr
    \/ SyncEjrRaises
    \/ SyncNoEjr
    \/ ExceptHandler
    \/ Exit

\* line 405-412: a status provider answers with any snapshot, AppNotFound or an error
ProviderSteps ==
    \/ \E md \in Snapshots : GetJobMetadata(md)
    \/ GetJobMetadataAppNotFound
    \/ \E e \in ProviderErrors : GetJobMetadataRaises(e)

Next ==
    \/ TrackerSteps
    \/ ProviderSteps

Spec == Init /\ [][Next]_vars

\* --------------------------------------- YarnStatusGetter.get_job_metadata
\* line 125: get_job_metadata is called, on its own or at line 405 by _sync_job_status
YarnCalled == response # NoResponse /\ (invocations = 0 \/ pc = "get_job_metadata")

\* get_job_metadata ends with the outcome o
YarnEnds(o) ==
    /\ YarnCalled
    /\ yarn_outcome = "none"
    /\ yarn_outcome' = o
    /\ UNCHANGED << tracker_vars, cal_vars, k8s_vars, response, report >>

\* line 128-129: raise AppNotFound
YarnAppNotFound ==
    /\ response.status_code = 404
    /\ YarnEnds("AppNotFound")
    /\ UNCHANGED yarn_metadata

\* line 132: response.raise_for_status() raises on the other 4xx and 5xx codes
YarnRaiseForStatus ==
    /\ response.status_code # 404
    /\ response.status_code >= 400
    /\ YarnEnds("HTTPError")
    /\ UNCHANGED yarn_metadata

\* the response passed line 128-132
YarnOk == response.status_code # 404 /\ response.status_code < 400

\* line 134: response.json() raises on a body that is not JSON
YarnJsonRaises ==
    /\ YarnOk
    /\ response.body = "not_json"
    /\ YarnEnds("JSONDecodeError")
    /\ UNCHANGED yarn_metadata

\* line 135-139: the body is JSON and not a dict
YarnNotADict ==
    /\ YarnOk
    /\ response.body = "not_dict"
    /\ YarnEnds("YarnAppReportParseException")
    /\ UNCHANGED yarn_metadata

\* line 153-155: "app" is null, and k not in None raises before the try of line 161
ParseNoneReport ==
    /\ YarnOk
    /\ response.body = "dict"
    /\ response.app = "null"
    /\ YarnEnds("TypeError")
    /\ UNCHANGED yarn_metadata

\* line 153, the report is a dict: data["app"], or {} without "app"
ParsesReport == YarnOk /\ response.body = "dict" /\ response.app # "null"

\* line 155: missing_keys
missing_keys == required_keys \ report.keys

\* line 156-159: a required key is missing
ParseMissingKeys ==
    /\ ParsesReport
    /\ missing_keys # {}
    /\ YarnEnds("YarnAppReportParseException")
    /\ UNCHANGED yarn_metadata

\* line 147: None / 1000 raises TypeError
MsEpochToDateRaises == {"startedTime", "finishedTime"} \cap report.nulls # {}

\* line 161-199: what the try block raises becomes YarnAppReportParseException
ParseApplicationResponseRaises ==
    /\ ParsesReport
    /\ missing_keys = {}
    /\ MsEpochToDateRaises
    /\ YarnEnds("YarnAppReportParseException")
    /\ UNCHANGED yarn_metadata

\* line 151-199: parse_application_response returns a _JobMetadata
ParseApplicationResponse ==
    /\ ParsesReport
    /\ missing_keys = {}
    /\ ~MsEpochToDateRaises
    /\ yarn_metadata' = << [status |-> YarnStateToOpeneoJobStatus(report.state, report.finalStatus),
                            start_time |-> MsEpochToDate(report.startedTime),
                            finish_time |-> MsEpochToDate(report.finishedTime),
                            usage |-> YarnUsage(report)] >>
    /\ YarnEnds("snapshot")

\* a response arrives; no JobTracker is running
InitYarn ==
    /\ zk = <<>>
    /\ invocations = 0
    /\ has_ejr = FALSE
    /\ response \in Responses
    /\ report \in ReportsOf(response)
    /\ yarn_metadata = <<>>
    /\ yarn_outcome = "none"
    /\ NothingAsked
    /\ NothingLaunched
    /\ Idle

NextYarn ==
    \/ YarnAppNotFound
    \/ YarnRaiseForStatus
    \/ YarnJsonRaises
    \/ YarnNotADict
    \/ ParseNoneReport
    \/ ParseMissingKeys
    \/ ParseApplicationResponseRaises
    \/ ParseApplicationResponse

YarnSpec == InitYarn /\ [][NextYarn]_vars

\* ---------------------------------------- K8sStatusGetter.get_job_metadata
\* line 213: get_job_metadata is called at line 405 by _sync_job_status
K8sCalled == k8s_resource # NoResource /\ pc = "get_job_metadata"

\* a getter that asks for the cost before it looks the resource up
K8sLookupAfterUsage(o) ==
    /\ K8sCalled
    /\ k8s_outcome = "none"
    /\ k8s_calls' = k8s_calls \o << "kubecost", "get_namespaced_custom_object" >>
    /\ k8s_outcome' = o
    /\ UNCHANGED << tracker_vars, cal_vars, yarn_vars, k8s_resource, kubecost >>

\* line 227-233: the lookup of the resource ends with the outcome o
K8sLookup(o) ==
    /\ K8sCalled
    /\ k8s_outcome = "none"
    /\ k8s_calls' = Append(k8s_calls, "get_namespaced_custom_object")
    /\ k8s_outcome' = o
    /\ UNCHANGED << tracker_vars, cal_vars, yarn_vars, k8s_resource, kubecost >>

\* line 234-237: raise AppNotFound() from e
K8sAppNotFound ==
    /\ k8s_resource.kind = "ApiException"
    /\ k8s_resource.status = 404
    /\ K8sLookup("AppNotFound")
    /\ UNCHANGED k8s_metadata

\* line 238: raise
K8sApiException ==
    /\ k8s_resource.kind = "ApiException"
    /\ k8s_resource.status # 404
    /\ K8sLookup("ApiException")
    /\ UNCHANGED k8s_metadata

\* line 241-243: a key of metadata["status"] is missing
K8sStatusKeyError ==
    /\ k8s_resource.kind = "partial_status"
    /\ K8sLookup("KeyError")
    /\ UNCHANGED k8s_metadata

\* a getter that reads metadata["status"] without the test of line 240
K8sNoStatusRaises ==
    /\ k8s_resource.kind = "no_status"
    /\ K8sLookup("KeyError")
    /\ UNCHANGED k8s_metadata

\* line 244-252: no "status" in metadata
K8sNoStatus ==
    /\ k8s_resource.kind = "no_status"
    /\ k8s_metadata' = << [status |-> K8sStateToOpeneoJobStatus(K8S_SPARK_APP_STATE_NEW),
                           start_time |-> "none", finish_time |-> "none",
                           usage |-> NoUsage] >>
    /\ K8sLookup("status")

\* line 240-243 and 249-252: _get_job_status returns what "status" holds
K8sGetJobStatus ==
    /\ k8s_resource.kind = "status"
    /\ k8s_metadata' = << [status |-> K8sStateToOpeneoJobStatus(k8s_resource.state),
                           start_time |-> k8s_resource.lastSubmissionAttemptTime,
                           finish_time |-> k8s_resource.terminationTime,
                           usage |-> NoUsage] >>
    /\ K8sLookup("status")

\* a _get_usage whose failure leaves get_job_metadata
K8sGetUsageReraises(usage) ==
    /\ K8sCalled
    /\ k8s_outcome = "status"
    /\ k8s_calls' = Append(k8s_calls, "kubecost")
    /\ k8s_metadata' = IF usage = NoUsage
                       THEN <<>>
                       ELSE << [k8s_metadata[1] EXCEPT !.usage = usage] >>
    /\ k8s_outcome' = IF usage = NoUsage THEN kubecost.failure ELSE "snapshot"
    /\ UNCHANGED << tracker_vars, cal_vars, yarn_vars, k8s_resource, kubecost >>

\* line 215-221: _get_usage returned usage, and get_job_metadata returns
K8sReturns(usage) ==
    /\ K8sCalled
    /\ k8s_outcome = "status"
    /\ k8s_calls' = Append(k8s_calls, "kubecost")
    /\ k8s_metadata' = << [k8s_metadata[1] EXCEPT !.usage = usage] >>
    /\ k8s_outcome' = "snapshot"
    /\ UNCHANGED << tracker_vars, cal_vars, yarn_vars, k8s_resource, kubecost >>

\* line 254-288: _get_usage returns the usage of the cost report
K8sGetUsage ==
    /\ kubecost.failure = "none"
    /\ K8sReturns(K8sUsage(kubecost))

\* line 289-294: except Exception, and _get_usage returns None
K8sGetUsageFails ==
    /\ kubecost.failure # "none"
    /\ K8sReturns(NoUsage)

NextK8s ==
    \/ K8sAppNotFound
    \/ K8sApiException
    \/ K8sStatusKeyError
    \/ K8sNoStatus
    \/ K8sGetJobStatus
    \/ K8sGetUsage
    \/ K8sGetUsageFails

\* ------------------------------- JobTracker with one of the two providers
\* registry entries and invocations of JobTracker with a provider
ClusterRecords == 1
ClusterPasses == 1

\* the application reports of a YARN that JobTracker polls: an application that is
\* accepted has no times, one that runs has started, one that is over has finished
ClusterReports ==
    { r \in Reports :
        /\ Cardinality(r.nulls) <= 1
        /\ r.memorySeconds \in {0, 5} /\ r.vcoreSeconds \in {0, 5}
        /\ r.memorySeconds = r.vcoreSeconds \/ "memorySeconds" \notin r.keys \ r.nulls
                                            \/ "vcoreSeconds" \notin r.keys \ r.nulls
        /\ r.startedTime \in {0, 60000}
        /\ r.finishedTime \in {0, 60000}
        /\ r.state = "ACCEPTED" => r.startedTime = 0
        /\ r.state = "RUNNING" => r.finishedTime = 0
        /\ r.state \in {"RUNNING", "FINISHED", "KILLED", "FAILED"} =>
               (r.startedTime = 0 => "startedTime" \notin r.keys \ r.nulls)
        /\ r.state \in {"FINISHED", "KILLED", "FAILED"} =>
               (r.finishedTime = 0 => "finishedTime" \notin r.keys \ r.nulls) }

\* what the provider of JobTracker answers when polled
ProviderOutcome == IF response # NoResponse THEN yarn_outcome ELSE k8s_outcome

ProviderMetadata == IF response # NoResponse THEN yarn_metadata[1] ELSE k8s_metadata[1]

\* what the two providers raise besides AppNotFound
ProviderExceptions ==
    {"HTTPError", "JSONDecodeError", "YarnAppReportParseException", "TypeError",
     "ApiException", "KeyError"}

\* line 405-410: the provider returned its snapshot
PollReturns ==
    /\ ProviderOutcome = "snapshot"
    /\ GetJobMetadata(ProviderMetadata)

\* line 411: the provider raised AppNotFound
PollAppNotFound ==
    /\ ProviderOutcome = "AppNotFound"
    /\ GetJobMetadataAppNotFound

\* line 405-410: what else the provider raised leaves _sync_job_status
PollRaises ==
    /\ ProviderOutcome \in ProviderExceptions
    /\ GetJobMetadataRaises(ProviderOutcome)

\* JobTracker is constructed with a YarnStatusGetter or with a K8sStatusGetter
InitCluster ==
    /\ zk \in Registries(ClusterRecords) /\ invocations = ClusterPasses
    /\ has_ejr \in BOOLEAN
    /\ \/ /\ response \in Responses
          /\ report \in IF response.status_code = 200
                         THEN ReportsOf(response) \cap (ClusterReports \cup {NoReport})
                         ELSE {NoReport}
          /\ yarn_metadata = <<>>
          /\ yarn_outcome = "none"
          /\ NothingAsked
       \/ /\ NothingParsed
          /\ k8s_resource \in K8sResources
          /\ kubecost \in KubecostAnswers
          /\ k8s_metadata = <<>>
          /\ k8s_outcome = "none"
          /\ k8s_calls = <<>>
    /\ NothingLaunched
    /\ Idle

NextCluster ==
    \/ TrackerSteps
    \/ NextYarn
    \/ NextK8s
    \/ PollReturns
    \/ PollAppNotFound
    \/ PollRaises

ClusterSpec == InitCluster /\ [][NextCluster]_vars

\* ------------------------------------ jobs registered while a pass runs
\* a slot of the primary registry that holds no job yet
NoRecord == JobRecord("absent", 0, "", "", "none", "", <<>>, 0)

\* the entry of a job that was registered and submitted
NewRecord(j) == JobRecord("dict", j, "u", "app", "queued", "c", <<>>, -1)

\* the snapshot of the pass in progress was taken
AfterSnapshot == pc \notin {"idle", "get_running_jobs"}

\* another process adds job j to the primary registry, at any moment
ExternalRegister(j) ==
    /\ zk[j] = NoRecord
    /\ zk' = [zk EXCEPT ![j] = NewRecord(j)]
    /\ late' = IF AfterSnapshot THEN late \cup {j} ELSE late
    /\ UNCHANGED << ejr, has_ejr, invocations, suspended, set_by, history, yarn_vars, k8s_vars, cal_vars, pc,
                    fail_fast, session, acquired, released, jobs_to_track, idx,
                    job_metadata, result_metadata, exc, stats, reports, ops,
                    scheduled, audit, fetched, outcome, passes, faults >>

\* the registries with at least one free slot
InitSubmit ==
    /\ zk \in { r \in [1..NRecords -> UNION { RecordKinds(i) \cup {NoRecord} : i \in 1..NRecords }] :
                  /\ \A i \in 1..NRecords : r[i] \in RecordKinds(i) \cup {NoRecord}
                  /\ \E i \in 1..NRecords : r[i] = NoRecord }
    /\ invocations = MaxPasses
    /\ has_ejr \in BOOLEAN
    /\ NothingParsed
    /\ NothingAsked
    /\ NothingLaunched
    /\ Idle

NextSubmit ==
    \/ Next
    \/ \E j \in Slots : ExternalRegister(j)

SubmitSpec == InitSubmit /\ [][NextSubmit]_vars

\* ------------------------------------------- one pass over three records
InitScenario ==
    /\ zk \in Registries(ScenarioRecords) /\ invocations = ScenarioPasses
    /\ has_ejr \in BOOLEAN
    /\ NothingParsed
    /\ NothingAsked
    /\ NothingLaunched
    /\ Idle

ScenarioSpec == InitScenario /\ [][Next]_vars

\* ------------------------- a registry that does not exclude finalized jobs
\* get_running_jobs of a primary registry that still enumerates the entries whose
\* status is terminal
GetRunningJobsStale ==
    /\ pc = "get_running_jobs"
    /\ jobs_to_track' = RunningJobsAll(zk)
    /\ stats' = Put(stats, <<"collected jobs">>, Len(RunningJobsAll(zk)))
    /\ idx' = 1
    /\ pc' = "loop"
    /\ Logged(<< "zk.get_running_jobs", 0, "", "ok" >>)
    /\ Returns
    /\ UNCHANGED << zk, ejr, has_ejr, invocations, suspended, set_by, late, history, yarn_vars, k8s_vars, cal_vars,
                    fail_fast, session, acquired, released,
                    job_metadata, result_metadata, exc, reports, scheduled,
                    audit, fetched, outcome, passes >>

InitStale ==
    /\ zk \in Registries(StaleRecords) /\ invocations = StalePasses
    /\ has_ejr \in BOOLEAN
    /\ NothingParsed
    /\ NothingAsked
    /\ NothingLaunched
    /\ Idle

NextStale ==
    \/ Next
    \/ GetRunningJobsStale

StaleSpec == InitStale /\ [][NextStale]_vars

\* ------------------------------------------- two overlapping invocations
\* line 326-383: the local variables of the invocation that is running
Locals ==
    [ pc |-> pc, fail_fast |-> fail_fast, session |-> session,
      jobs_to_track |-> jobs_to_track, idx |-> idx, job_metadata |-> job_metadata,
      result_metadata |-> result_metadata, exc |-> exc, stats |-> stats, ops |-> ops ]

\* update_statuses is invoked by two processes on the same registries; nothing of
\* line 324-501 takes a lock, so between two external calls of one invocation the
\* other one can run: the processor goes from one invocation to the other, which is
\* under way or can be started
Switch ==
    /\ suspended # Locals
    /\ suspended.pc # "idle" \/ passes < invocations
    /\ suspended' = Locals
    /\ pc' = suspended.pc
    /\ fail_fast' = suspended.fail_fast
    /\ session' = suspended.session
    /\ jobs_to_track' = suspended.jobs_to_track
    /\ idx' = suspended.idx
    /\ job_metadata' = suspended.job_metadata
    /\ result_metadata' = suspended.result_metadata
    /\ exc' = suspended.exc
    /\ stats' = suspended.stats
    /\ ops' = suspended.ops
    /\ UNCHANGED << zk, ejr, has_ejr, invocations, set_by, late, history, yarn_vars, k8s_vars, cal_vars,
                    acquired, released, reports, scheduled, audit, fetched, outcome,
                    passes, faults >>

InitOverlap ==
    /\ zk \in Registries(OverlapRecords) /\ invocations = OverlapPasses
    /\ has_ejr \in BOOLEAN
    /\ NothingParsed
    /\ NothingAsked
    /\ NothingLaunched
    /\ Idle

NextOverlap ==
    \/ Next
    \/ Switch

OverlapSpec == InitOverlap /\ [][NextOverlap]_vars

\* ------------------------------------ a user cancelling jobs meanwhile
\* another process (the web application, on a user's request) writes CANCELED into
\* the entry of job j, at any moment
ExternalCancel(j) ==
    /\ zk[j].shape = "dict" /\ zk[j].job_id = j
    /\ zk[j].status # "canceled"
    /\ zk' = ZkSetStatus(zk, j, "canceled")
    /\ set_by' = [set_by EXCEPT ![j] = "external"]
    /\ UNCHANGED << ejr, has_ejr, invocations, suspended, late, history, yarn_vars, k8s_vars, cal_vars, pc,
                    fail_fast, session, acquired, released, jobs_to_track, idx,
                    job_metadata, result_metadata, exc, stats, reports, ops,
                    scheduled, audit, fetched, outcome, passes, faults >>

InitCancel ==
    /\ zk \in Registries(CancelRecords) /\ invocations = CancelPasses
    /\ has_ejr \in BOOLEAN
    /\ NothingParsed
    /\ NothingAsked
    /\ NothingLaunched
    /\ Idle

NextCancel ==
    \/ Next
    \/ \E j \in Slots : ExternalCancel(j)

CancelSpec == InitCancel /\ [][NextCancel]_vars

\* ------------------------------- CalrissianJobLauncher.launch_job_and_wait
\* V1JobCondition: the type and the status of a condition
ConditionTypes == {"Failed", "Complete"}
ConditionStatuses == {"True", "False"}

\* job.status.conditions of a read: None (not present) or a list of conditions
Conditions ==
    { [present |-> FALSE, list |-> {}] }
        \cup { [present |-> TRUE, list |-> c] : c \in SUBSET (ConditionTypes \X ConditionStatuses) }

\* calrissian.py line 281: if job.status.conditions
HasConditions(conds) == conds.present /\ conds.list # {}

\* calrissian.py line 282: any(c.type == "Failed" and c.status == "True" for c in
\* job.status.conditions)
IsFailed(conds) == << "Failed", "True" >> \in conds.list

\* calrissian.py line 285: any(c.type == "Complete" and c.status == "True" for c in
\* job.status.conditions)
IsComplete(conds) == << "Complete", "True" >> \in conds.list

\* the conditions looked at for Complete first
FinalStatusCompleteFirst(conds, status) ==
    IF ~HasConditions(conds) THEN status
    ELSE IF IsComplete(conds) THEN "complete"
    ELSE IF IsFailed(conds) THEN "failed"
    ELSE status

\* calrissian.py line 281-287: final_status after a read, Failed being looked for first
FinalStatusAfter(conds, status) ==
    IF ~HasConditions(conds) THEN status
    ELSE IF IsFailed(conds) THEN "failed"
    ELSE IF IsComplete(conds) THEN "complete"
    ELSE status

\* the call ends, by return or by exception
LaunchEnds(o) == launch_outcome' = o /\ launch_pc' = "done"

\* calrissian.py line 265-268: the job is created
CreateJob ==
    /\ launch_pc = "create"
    /\ creations' = creations + 1
    /\ launch_pc' = "loop"
    /\ UNCHANGED << tracker_vars, yarn_vars, k8s_vars, timeout, sleep, elapsed, polls,
                    final_status, launch_outcome >>

\* calrissian.py line 265-268 raising
CreateJobRaises ==
    /\ launch_pc = "create"
    /\ LaunchEnds("ApiException")
    /\ UNCHANGED << tracker_vars, yarn_vars, k8s_vars, timeout, sleep, creations, elapsed,
                    polls, final_status >>

\* calrissian.py line 278: while timer.elapsed() < timeout
LoopGoesOn == launch_pc = "loop" /\ elapsed < timeout

\* calrissian.py line 279-287: the job is read, which takes d seconds, and its
\* conditions are looked at; break leaves the loop
ReadJob(conds, d) ==
    /\ LoopGoesOn
    /\ polls' = Append(polls, conds)
    /\ elapsed' = elapsed + d
    /\ final_status' = FinalStatusAfter(conds, final_status)
    /\ launch_pc' = IF FinalStatusAfter(conds, final_status) # final_status
                    THEN "after"
                    ELSE "sleep"
    /\ UNCHANGED << tracker_vars, yarn_vars, k8s_vars, timeout, sleep, creations,
                    launch_outcome >>

\* calrissian.py line 279 raising
ReadJobRaises(d) ==
    /\ LoopGoesOn
    /\ elapsed' = elapsed + d
    /\ LaunchEnds("ApiException")
    /\ UNCHANGED << tracker_vars, yarn_vars, k8s_vars, timeout, sleep, creations, polls,
                    final_status >>

\* calrissian.py line 288: time.sleep(sleep)
Sleep ==
    /\ launch_pc = "sleep"
    /\ elapsed' = elapsed + sleep
    /\ launch_pc' = "loop"
    /\ UNCHANGED << tracker_vars, yarn_vars, k8s_vars, timeout, sleep, creations, polls,
                    final_status, launch_outcome >>

\* calrissian.py line 278: the time is up
LoopEnds ==
    /\ launch_pc = "loop"
    /\ ~(elapsed < timeout)
    /\ launch_pc' = "after"
    /\ UNCHANGED << tracker_vars, yarn_vars, k8s_vars, timeout, sleep, creations, elapsed,
                    polls, final_status, launch_outcome >>

\* calrissian.py line 290-302
Finish ==
    /\ launch_pc = "after"
    /\ LaunchEnds(IF final_status = "complete" THEN "returned"
                  ELSE IF final_status = "none" THEN "TimeoutError"
                  ELSE "RuntimeError")
    /\ UNCHANGED << tracker_vars, yarn_vars, k8s_vars, timeout, sleep, creations, elapsed,
                    polls, final_status >>

InitCalrissian ==
    /\ zk = <<>>
    /\ invocations = 0
    /\ has_ejr = FALSE
    /\ NothingParsed
    /\ NothingAsked
    /\ timeout \in 0..MaxTimeout
    /\ sleep \in 1..MaxSleep
    /\ launch_pc = "create"
    /\ creations = 0
    /\ elapsed = 0
    /\ polls = <<>>
    /\ final_status = "none"
    /\ launch_outcome = "none"
    /\ Idle

NextCalrissian ==
    \/ CreateJob
    \/ CreateJobRaises
    \/ \E conds \in Conditions : \E d \in 0..MaxReadTime : ReadJob(conds, d)
    \/ \E d \in 0..MaxReadTime : ReadJobRaises(d)
    \/ Sleep
    \/ LoopEnds
    \/ Finish

CalrissianSpec == InitCalrissian /\ [][NextCalrissian]_vars


\* ================================================================ claims
\* vocabulary of the claims, over the call log of the pass
Records == 1..Len(jobs_to_track)

PassEnded == pc = "idle" /\ passes > 0

SnapshotRead == ops # <<>> /\ ops[1] = << "zk.get_running_jobs", 0, "", "ok" >>

OpsAt(i) == SelectSeq(ops, LAMBDA e : e[2] = i)

CallsAt(i) == SelectSeq(ops, LAMBDA e : e[2] = i /\ e[1] # "visit")

Names(s) == [k \in DOMAIN s |-> s[k][1]]

NumberOf(op, i) == Cardinality({ k \in DOMAIN ops : ops[k][1] = op /\ ops[k][2] = i })

MissingIds(r) == r.shape # "dict" \/ r.job_id = 0 \/ r.user_id = ""

Submitted(r) == ~MissingIds(r) /\ r.application_id # ""

\* the exceptions of the pass that reached the except clause of the loop
Propagated ==
    { k \in DOMAIN ops : /\ ops[k][4] = "raise"
                         /\ ops[k][1] \notin {"ejr.set_status", "zk.get_running_jobs"}
                         /\ ops[k][3] # "AppNotFound" }

PolledOk(i) == \E k \in DOMAIN ops : ops[k][1] = "get_job_metadata" /\ ops[k][2] = i /\ ops[k][4] = "ok"

PolledStatus(i) ==
    (CHOOSE e \in { ops[k] : k \in DOMAIN ops } : e[1] = "get_job_metadata" /\ e[2] = i)[3]

SnapshotWith(status) == CHOOSE md \in Snapshots : md.status = status

\* the sync of record i is over: the loop moved on, or the pass left the loop
SyncOver(i) == idx > i \/ (idx = i /\ pc \in {"except", "exit", "idle"})

\* C1: with fail_fast=False every record of the snapshot is visited exactly once in the
\* pass, and every submitted one is polled exactly once, whatever failed before it; no
\* record is ever visited or polled twice.
C1_EveryRecordAttemptedOnce ==
    /\ \A i \in Records : NumberOf("visit", i) <= 1 /\ NumberOf("get_job_metadata", i) <= 1
    /\ (PassEnded /\ ~fail_fast /\ SnapshotRead) =>
          \A i \in Records :
              /\ NumberOf("visit", i) = 1
              /\ NumberOf("get_job_metadata", i) = (IF Submitted(jobs_to_track[i]) THEN 1 ELSE 0)

\* a pass without fail_fast in which the first job's sync failed and the second was polled
C1_Witness ==
    /\ PassEnded /\ ~fail_fast /\ Len(jobs_to_track) = 2
    /\ \E k \in Propagated : ops[k][2] = 1
    /\ PolledOk(2)

\* C2: with fail_fast=True, when the status query of record c raises something other than
\* AppNotFound, the pass raises that exception, nothing is called for any record after c,
\* those records are unchanged in the primary registry, and the status patches made for
\* the records before c are still in the registry.
C2_FailFastLeavesLaterJobsUntouched ==
    \A k \in DOMAIN ops :
        (fail_fast /\ PassEnded /\ ops[k][1] = "get_job_metadata"
                   /\ ops[k][4] = "raise" /\ ops[k][3] \in ProviderErrors) =>
            /\ outcome = ops[k][3]
            /\ k = Len(ops)
            /\ \A m \in DOMAIN ops : ops[m][2] <= ops[k][2]
            /\ \A i \in Records :
                  (i > ops[k][2] /\ ~MissingIds(jobs_to_track[i])) =>
                      zk[jobs_to_track[i].job_id] = jobs_to_track[i]
            /\ \A m \in DOMAIN ops :
                  (ops[m][1] = "zk.patch_status" /\ ops[m][4] = "ok") =>
                      zk[jobs_to_track[ops[m][2]].job_id].status = ops[m][3]

\* a fail_fast pass aborted by the status query of the first record, a submitted job after it
C2_Witness ==
    /\ PassEnded /\ fail_fast /\ Len(jobs_to_track) = 2
    /\ Submitted(jobs_to_track[2])
    /\ outcome = "YarnAppReportParseException"
    /\ ops[Len(ops)] = << "get_job_metadata", 1, "YarnAppReportParseException", "raise" >>


\* the sync of record i ended in the handler of AppNotFound, past its primary write
AppNotFoundAt(i) == << "get_job_metadata", i, "AppNotFound", "raise" >> \in { ops[k] : k \in DOMAIN ops }

PrimaryErrorWritten(i) ==
    \E k \in DOMAIN ops : ops[k][1] = "zk.set_status" /\ ops[k][2] = i /\ ops[k][4] = "ok"

\* what AppNotFound at record i must lead to
AppNotFoundIsAbsorbed(i) ==
    /\ ~(idx = i /\ pc \in {"except", "exit", "idle"})
    /\ exc = "none" => Count(stats, <<"failed sync">>) = Cardinality({ k \in Propagated : ops[k][2] # i })
    /\ idx > i => zk[jobs_to_track[i].job_id].status = "error"
    /\ (PassEnded /\ outcome = "returned") => \A j \in Records : NumberOf("visit", j) = 1

\* C3 as stated: whenever the provider raised AppNotFound for a record, the job ends
\* with status ERROR in the primary registry, no exception leaves its sync (with or
\* without fail_fast), it is not counted under "failed sync" and the records after it
\* are visited.
C3_Original ==
    \A i \in Records : (AppNotFoundAt(i) /\ pc # "app_not_found") => AppNotFoundIsAbsorbed(i)

\* C3 amended: the same, once the primary registry's set_status(ERROR) has returned;
\* when that call raises, the exception is handled like any other failure of a sync.
C3_AppNotFoundSetsError ==
    \A i \in Records : (AppNotFoundAt(i) /\ PrimaryErrorWritten(i)) => AppNotFoundIsAbsorbed(i)

\* a fail_fast pass where the first job was not found and the second was visited after it
C3_Witness ==
    /\ PassEnded /\ fail_fast /\ outcome = "returned" /\ Len(jobs_to_track) = 2
    /\ AppNotFoundAt(1) /\ PrimaryErrorWritten(1)
    /\ zk[jobs_to_track[1].job_id].status = "error"
    /\ NumberOf("visit", 2) = 1

\* C4: over all passes, the finalize side effects of a job (result-metadata fetch and
\* merge, cleanup scheduling, usage audit log) run at most once, and never for a job
\* whose previous status was already terminal.
C4_FinalizeAtMostOnce ==
    /\ \A j \in Slots :
          /\ fetched[j] <= 1
          /\ Cardinality({ k \in DOMAIN scheduled : scheduled[k].job_id = j }) <= 1
          /\ Cardinality({ k \in DOMAIN audit : audit[k].job_id = j }) <= 1
    /\ \A i \in Records :
          NumberOf("get_results_metadata", i) > 0 => jobs_to_track[i].status \notin TerminalStatuses

\* C5: a sync that polled a terminal status and in which nothing raised has called, in
\* this order, get_results_metadata, the patch with the result metadata,
\* remove_dependencies and, if and only if the record's dependency sources are not
\* empty, the cleanup scheduler once with these sources deduplicated; a sync that polled
\* a non-terminal status has called none of them.
C5_FinalizeSteps ==
    \A i \in Records :
        (PolledOk(i) /\ SyncOver(i) /\ \A k \in DOMAIN ops : ops[k][2] = i => ops[k][4] = "ok") =>
            LET r == jobs_to_track[i]
                sources == { r.dependency_sources[k] : k \in 1..Len(r.dependency_sources) }
                calls == Names(SelectSeq(CallsAt(i), LAMBDA e : e[1] # "ejr.set_status"))
            IN  IF PolledStatus(i) \in {"finished", "error", "canceled"}
                THEN /\ calls = << "get_job_metadata", "get_results_metadata", "zk.patch_results",
                                   "zk.remove_dependencies" >>
                                 \o (IF sources # {} THEN << "schedule_delete" >> ELSE << >>)
                                 \o << "zk.patch_status" >>
                     /\ zk[r.job_id].results = ResultsMetadataOf(r.job_id)
                     /\ zk[r.job_id].dependency_sources = << >>
                     /\ sources # {} =>
                           \E k \in DOMAIN scheduled :
                               scheduled[k] = [job_id |-> r.job_id, sources |-> sources]
                ELSE calls = << "get_job_metadata", "zk.patch_status" >>

\* a job with duplicated dependency sources polled FINISHED and finalized
C5_Witness ==
    /\ pc = "loop" /\ idx = 2
    /\ PolledOk(1) /\ PolledStatus(1) = "finished"
    /\ Len(jobs_to_track[1].dependency_sources) = 3
    /\ scheduled = << [job_id |-> jobs_to_track[1].job_id, sources |-> {"s1", "s2"}] >>


\* the finalize steps of record i: did one of them raise
FinalizeRaised(i) ==
    \E k \in DOMAIN ops :
        /\ ops[k][2] = i /\ ops[k][4] = "raise"
        /\ ops[k][1] \in {"get_results_metadata", "zk.patch_results", "zk.remove_dependencies",
                          "schedule_delete"}

PatchedAt(i, result) ==
    \E k \in DOMAIN ops : ops[k] = << "zk.patch_status", i, PolledStatus(i), result >>

MirroredAfterPatch(i) ==
    \E k, m \in DOMAIN ops :
        /\ k < m
        /\ ops[k] = << "zk.patch_status", i, PolledStatus(i), "ok" >>
        /\ ops[m][1] = "ejr.set_status" /\ ops[m][2] = i /\ ops[m][3] = PolledStatus(i)

\* the primary registry holds the polled snapshot of record i
PrimaryHoldsSnapshot(i) ==
    LET md == SnapshotWith(PolledStatus(i))
        job == zk[jobs_to_track[i].job_id]
    IN  /\ job.status = md.status /\ job.started = md.start_time
        /\ job.finished = md.finish_time /\ job.usage = md.usage

\* the secondary registry holds status and times of the polled snapshot of record i
SecondaryHoldsSnapshot(i) ==
    LET md == SnapshotWith(PolledStatus(i))
    IN  ejr[jobs_to_track[i].job_id] =
            [status |-> md.status, started |-> md.start_time, finished |-> md.finish_time]

C7_SecondaryFailuresSwallowed ==
    /\ exc # "EjrError" /\ outcome # "EjrError"
    /\ \A k \in DOMAIN ops :
          (ops[k][1] = "ejr.set_status" /\ ops[k][4] = "raise") =>
              /\ idx > ops[k][2]
              /\ zk[jobs_to_track[ops[k][2]].job_id].status = ops[k][3]
              /\ pc # "except" =>
                    Count(stats, <<"failed sync">>) = Cardinality(Propagated)
              /\ (PassEnded /\ Propagated = {}) => outcome = "returned"

\* a fail_fast pass that returned although the mirror of a job's status had raised
C7_Witness ==
    /\ PassEnded /\ fail_fast /\ outcome = "returned"
    /\ \E k \in DOMAIN ops : ops[k][1] = "ejr.set_status" /\ ops[k][4] = "raise"
    /\ Count(stats, <<"failed sync">>) = 0

\* C8: when the status query of a record raises a parse error or a transport error,
\* nothing else is called for that record in the pass and its entry in the primary
\* registry is unchanged, the failure is counted once under "failed sync", and without
\* fail_fast the loop goes on with the next record.
C8_FailedQuerySkipsJob ==
    \A k \in DOMAIN ops :
        (ops[k][1] = "get_job_metadata" /\ ops[k][4] = "raise" /\ ops[k][3] \in ProviderErrors) =>
            LET i == ops[k][2] IN
            /\ Names(CallsAt(i)) = << "get_job_metadata" >>
            /\ zk[jobs_to_track[i].job_id] = jobs_to_track[i]
            /\ Cardinality({ m \in Propagated : ops[m][2] = i }) = 1
            /\ pc # "except" => Count(stats, <<"failed sync">>) = Cardinality(Propagated)
            /\ (~fail_fast /\ ~(pc = "except" /\ idx = i)) => idx > i
            /\ (PassEnded /\ ~fail_fast) => \A j \in Records : NumberOf("visit", j) = 1

\* a pass without fail_fast where the first query raised and the second job was polled
C8_Witness ==
    /\ PassEnded /\ ~fail_fast /\ Len(jobs_to_track) = 2
    /\ ops[3] = << "get_job_metadata", 1, "HTTPError", "raise" >>
    /\ Count(stats, <<"failed sync">>) = 1
    /\ PolledOk(2)

\* C9: the session of the primary registry is entered once per invocation and left on
\* every exit path: it is held exactly while an invocation is running, and after the
\* invocation returned or raised it is not held.
C9_SessionReleased ==
    /\ pc = "idle" => (~session /\ acquired = passes /\ released = passes)
    /\ pc # "idle" => (session /\ acquired = passes + 1 /\ released = passes)

\* an invocation that ended with the exception of get_running_jobs
C9_Witness ==
    /\ PassEnded /\ outcome = "RegistryError"
    /\ ops = << << "zk.get_running_jobs", 0, "", "raise" >> >>
    /\ ~session /\ released = passes

\* C10: a record without job_id or user_id, or that is no dict, is counted under
\* "invalid job_info" and nothing is called for it: no provider call, no write to either
\* registry; the loop moves on to the next record, with fail_fast=True as well.
C10_InvalidRecordSkipped ==
    \A i \in Records :
        MissingIds(jobs_to_track[i]) =>
            /\ idx = i => pc = "loop"
            /\ idx > i =>
                  /\ OpsAt(i) = << << "visit", i, "invalid", "ok" >> >>
                  /\ \E s \in Slots : zk[s] = jobs_to_track[i]
                  /\ Count(stats, <<"invalid job_info">>) =
                         Cardinality({ j \in Records : j < idx /\ MissingIds(jobs_to_track[j]) })

\* a fail_fast pass that returned after skipping a record without user_id
C10_Witness ==
    /\ PassEnded /\ fail_fast /\ outcome = "returned" /\ Len(jobs_to_track) = 2
    /\ jobs_to_track[1].job_id # 0 /\ jobs_to_track[1].user_id = ""
    /\ Count(stats, <<"invalid job_info">>) = 1
    /\ PolledOk(2)

NoApplicationId(r) == ~MissingIds(r) /\ r.application_id = ""

\* C11: a record without application_id never reaches the status provider and produces
\* no error, whatever its created and status fields hold: it is skipped with one
\* "skip due to no application_id" count, nothing is written for it, no exception of
\* the pass belongs to it, and the loop moves on to the next record.
C11_NoApplicationIdSkipped ==
    \A i \in Records :
        NoApplicationId(jobs_to_track[i]) =>
            /\ idx = i => pc = "loop"
            /\ \A k \in Propagated : ops[k][2] # i
            /\ idx > i =>
                  /\ OpsAt(i) = << << "visit", i, "skip", "ok" >> >>
                  /\ zk[jobs_to_track[i].job_id] = jobs_to_track[i]
                  /\ Count(stats, <<"skip due to no application_id", jobs_to_track[i].status>>) >= 1

\* the counter updates the calls of the pass account for
AttemptsLogged == Cardinality({ k \in DOMAIN ops : ops[k][1] = "get_job_metadata" })

\* C12: the counters of a pass are reported as one summary, exactly once per pass and
\* only when the pass ends; the summary of a pass that an exception aborted is reported
\* as well and holds exactly the counter updates made before the exception left the
\* pass: the collected jobs if the snapshot was read, one attempt per provider call,
\* one "failed sync" per exception that reached the except clause.
C12_SummaryOncePerPass ==
    /\ Len(reports) = passes
    /\ PassEnded =>
          /\ reports[passes] = stats
          /\ Count(reports[passes], <<"failed sync">>) = Cardinality(Propagated)
          /\ Count(reports[passes], <<"get metadata attempt">>) = AttemptsLogged
          /\ IF SnapshotRead
             THEN reports[passes][<<"collected jobs">>] = Len(jobs_to_track)
             ELSE reports[passes] = NoStats

\* a fail_fast pass aborted at its second record, after one job was polled
C12_Witness ==
    /\ PassEnded /\ fail_fast /\ outcome = "HTTPError" /\ idx = 2
    /\ PolledOk(1)
    /\ Len(reports) = 1
    /\ Count(reports[1], <<"failed sync">>) = 1
    /\ Count(reports[1], <<"get metadata attempt">>) = 2
    /\ Count(reports[1], <<"new metadata">>) = 1

\* the pass ended after visiting A without application_id at a, B whose query raised
\* AppNotFound at b, and C polled FINISHED from running at c, nothing else failing
ScenarioAt(a, b, c) ==
    /\ PassEnded /\ outcome = "returned" /\ Len(jobs_to_track) = 3
    /\ {a, b, c} = 1..3
    /\ Propagated = {}
    /\ NoApplicationId(jobs_to_track[a])
    /\ Submitted(jobs_to_track[b]) /\ AppNotFoundAt(b)
    /\ Submitted(jobs_to_track[c]) /\ jobs_to_track[c].status = "running"
    /\ PolledOk(c) /\ PolledStatus(c) = "finished"

\* the counter of that pass, key by key
ScenarioStats(a, b, c) ==
    LET sync == Inc(Inc(NoStats, <<"job with previous_status", jobs_to_track[b].status>>),
                    <<"job with previous_status", jobs_to_track[c].status>>)
    IN  sync @@
        ( <<"collected jobs">> :> 3 ) @@
        ( <<"skip due to no application_id", jobs_to_track[a].status>> :> 1 ) @@
        ( <<"get metadata attempt">> :> 2 ) @@
        ( <<"new metadata">> :> 1 ) @@
        ( <<"app not found">> :> 1 ) @@
        ( <<"status change">> :> 1 ) @@
        ( <<"status change", "running", "finished">> :> 1 ) @@
        ( <<"reached final status", "finished">> :> 1 )

\* the claim as stated: four counters, and no other key
C13_Original ==
    \A a, b, c \in 1..3 :
        ScenarioAt(a, b, c) =>
            /\ Count(stats, <<"collected jobs">>) = 3
            /\ Count(stats, <<"skip due to no application_id">>) = 1
            /\ Count(stats, <<"app not found">>) = 1
            /\ Count(stats, <<"reached final status", "finished">>) = 1
            /\ DOMAIN stats = { <<"collected jobs">>, <<"skip due to no application_id">>,
                                <<"app not found">>, <<"reached final status", "finished">> }

\* C13: after a pass over A without application_id, B whose query raises AppNotFound and
\* C that goes from running to finished, the counter holds "collected jobs" 3, the skip
\* counter keyed by A's status 1, "app not found" 1, "reached final status finished" 1,
\* and besides these the bookkeeping of the two syncs: "job with previous_status" per
\* status, "get metadata attempt" 2, "new metadata" 1, "status change" 1 and the
\* "status change running -> finished" counter 1; it holds no other key.
C13_ScenarioStats ==
    \A a, b, c \in 1..3 : ScenarioAt(a, b, c) => stats = ScenarioStats(a, b, c)

\* the scenario in the order A, B, C
C13_Witness == ScenarioAt(1, 2, 3) /\ stats[<<"collected jobs">>] = 3

\* JobTracker wrote a terminal status for job j
TerminalWritten(j) == set_by[j] # "none" /\ zk[j].status \in TerminalStatuses

\* C14: terminal is absorbing: once JobTracker has written FINISHED, ERROR or CANCELED
\* for a job in the primary registry, no later step of this pass or of a later pass
\* changes the job's status, so none writes a non-terminal status for it.
C14_TerminalAbsorbing ==
    [][ \A j \in Slots : TerminalWritten(j) => zk'[j].status = zk[j].status ]_vars

\* a second pass polls another job as running while a job of the first pass is finished
C14_Witness ==
    /\ passes = 1 /\ pc = "ejr_set_status"
    /\ job_metadata.status = "running"
    /\ \E j \in Slots : /\ j # job_info.job_id
                        /\ set_by[j] = "patch"
                        /\ zk[j].status = "finished"
                        /\ zk[job_info.job_id].status = "running"

Finalized(j) == zk[j].results = ResultsMetadataOf(j) /\ zk[j].dependency_sources = <<>>

\* the claim as stated: every terminal status JobTracker wrote comes with the merge and
\* the cleared dependency_sources, the ERROR of AppNotFound included
C15_Original == \A j \in Slots : TerminalWritten(j) => Finalized(j)

\* C15: in every reachable state, a job whose terminal status was written by the status
\* patch of a sync that polled a terminal snapshot has its result metadata merged and
\* its dependency_sources cleared in the primary registry; a job set to ERROR by the
\* AppNotFound handler has that status and nothing else from that sync: if no earlier
\* sync fetched its result metadata, none is merged.
C15_FinalizedBeforeTerminalPatch ==
    \A j \in Slots :
        /\ (set_by[j] = "patch" /\ zk[j].status \in TerminalStatuses) => Finalized(j)
        /\ set_by[j] = "app_not_found" =>
              /\ zk[j].status = JOB_STATUS_ERROR
              /\ fetched[j] = 0 => zk[j].results = NoResults

\* one job finished by the status patch after its finalize steps, the other set to
\* ERROR by the AppNotFound handler with its dependency_sources still in place
C15_Witness ==
    /\ PassEnded
    /\ \E j, k \in Slots :
          /\ set_by[j] = "patch" /\ zk[j].status = "finished" /\ Finalized(j)
          /\ set_by[k] = "app_not_found" /\ zk[k].status = "error"
          /\ zk[k].dependency_sources # <<>> /\ zk[k].results = NoResults

\* the invocation before the one whose calls are in ops
PreviousPass == IF pc = "idle" THEN passes - 1 ELSE passes

\* ops and jobs_to_track are those of an invocation that followed another and read
\* its snapshot
AfterAnotherPass == PreviousPass >= 1 /\ SnapshotRead

SnapshotReads == { k \in DOMAIN ops : ops[k][1] = "zk.get_running_jobs" }

InSnapshot(j) == \E i \in Records : jobs_to_track[i].job_id = j

\* nothing was called or written for job j since it was registered
Untouched(j) ==
    /\ zk[j] = NewRecord(j)
    /\ ejr[j].status = "none"
    /\ set_by[j] = "none"
    /\ fetched[j] = 0

\* C16: a pass reads the running-job set once, as its first call, and works on that
\* snapshot only: a job registered in the primary registry after the snapshot is not in
\* it and gets no provider call and no write in that pass; the next pass has it in its
\* snapshot, and polls it once unless the pass is aborted.
C16_SnapshotOnly ==
    /\ SnapshotReads \subseteq {1}
    /\ (pc \notin {"idle", "get_running_jobs"} \/ PassEnded) => SnapshotReads = {1}
    /\ \A j \in late : ~InSnapshot(j) /\ Untouched(j)
    /\ AfterAnotherPass =>
          \A j \in history[PreviousPass].late :
              \E i \in Records :
                  /\ jobs_to_track[i] = NewRecord(j)
                  /\ (PassEnded /\ outcome = "returned") => NumberOf("get_job_metadata", i) = 1

\* job 2 was registered while the first pass polled job 1, was left alone by that pass
\* and is polled by the second
C16_Witness ==
    /\ passes = 1 /\ pc = "ejr_set_status" /\ idx = 2
    /\ AfterAnotherPass
    /\ history[1].late = {2}
    /\ Len(history[1].jobs) = 1
    /\ history[1].zk[2] = NewRecord(2)
    /\ job_info = NewRecord(2)
    /\ PolledOk(2)

\* the pass was aborted under fail_fast by a failure at a record before i
AbortedBefore(i) == fail_fast /\ \E k \in Propagated : ops[k][2] < i

\* record i of the snapshot of pass p was not reached before that pass ended
NotReachedIn(p, i) ==
    /\ i \in DOMAIN history[p].jobs
    /\ \A k \in DOMAIN history[p].ops : history[p].ops[k][2] # i

\* C17: at-least-once reconciliation: a record that a pass did not reach because
\* fail_fast aborted it is, unchanged, in the snapshot of the next invocation, and every
\* pass polls every record with an application_id of its snapshot once unless it is
\* aborted under fail_fast by a failure at an earlier record; so a job that stays in
\* the running set is polled by the first pass that is not aborted before reaching it.
C17_AtLeastOnce ==
    /\ (PassEnded /\ SnapshotRead) =>
          \A i \in Records :
              Submitted(jobs_to_track[i]) =>
                  NumberOf("get_job_metadata", i) = 1 \/ AbortedBefore(i)
    /\ AfterAnotherPass =>
          \A i \in DOMAIN history[PreviousPass].jobs :
              NotReachedIn(PreviousPass, i) =>
                  \E m \in Records : jobs_to_track[m] = history[PreviousPass].jobs[i]

\* the first pass was aborted at record 1 before reaching record 2, which the second
\* pass polled
C17_Witness ==
    /\ PassEnded /\ passes = 2
    /\ Len(history[1].jobs) = 2 /\ NotReachedIn(1, 2)
    /\ Submitted(history[1].jobs[2])
    /\ Len(jobs_to_track) = 2
    /\ jobs_to_track[2] = history[1].jobs[2]
    /\ PolledOk(2)

JobIds(jobs) == [i \in DOMAIN jobs |-> << jobs[i].shape, jobs[i].job_id >>]

\* the calls of a pass and how each ended, the cleanup scheduling left out: it is made
\* only while the record still lists dependency_sources
Answers(log) == SelectSeq(log, LAMBDA e : e[1] # "schedule_delete")

\* two invocations in a row over the same running set, every collaborator answering
\* the second time as it did the first
SameRunTwice ==
    /\ PassEnded /\ passes = 2
    /\ JobIds(history[1].jobs) = JobIds(history[2].jobs)
    /\ Answers(history[1].ops) = Answers(history[2].ops)

C19_Sequential ==
    /\ \A k, m \in DOMAIN ops : k < m => ops[k][2] <= ops[m][2]
    /\ \A k \in DOMAIN ops : ops[k][2] <= idx
    /\ \A j \in Records :
          (j > idx /\ ~MissingIds(jobs_to_track[j])) =>
              zk[jobs_to_track[j].job_id] = jobs_to_track[j]

\* three jobs polled one after the other, the third while the first two are written
C19_Witness ==
    /\ Len(jobs_to_track) = 3 /\ idx = 3 /\ pc = "patch_status"
    /\ PolledOk(1) /\ PolledOk(2) /\ PolledOk(3)
    /\ zk[1].status = PolledStatus(1)
    /\ zk[2].status = PolledStatus(2)
    /\ zk[3] = jobs_to_track[3]

\* the time string of the epoch itself, "1970-01-01T00:00:00Z"
EpochZero == Rfc3339Datetime(0)

Parsed == yarn_metadata # <<>>

\* the time t is what the report's value ms stands for: absent for 0 and for 0 only,
\* otherwise the second that holds the instant
TimeOf(t, ms) ==
    /\ ~t.present <=> ms = 0
    /\ t.present => (t.seconds * MillisPerSecond <= ms /\ ms < (t.seconds + 1) * MillisPerSecond)

\* the claim as stated: 0 gives an absent time, every other value a present one, and
\* the snapshot never carries the epoch-zero time string
C20_Original ==
    Parsed =>
        /\ ~yarn_metadata[1].start_time.present <=> report.startedTime = 0
        /\ ~yarn_metadata[1].finish_time.present <=> report.finishedTime = 0
        /\ yarn_metadata[1].start_time # EpochZero
        /\ yarn_metadata[1].finish_time # EpochZero

\* C20: in the YARN variant a startedTime of 0 gives an absent start_time and a
\* finishedTime of 0 an absent finish_time; every non-zero epoch-millisecond value gives
\* a present RFC3339 time, the whole second that holds the instant, so the snapshot
\* carries the epoch-zero time string exactly for the non-zero values below one second.
C20_ZeroIsAbsent ==
    Parsed =>
        /\ TimeOf(yarn_metadata[1].start_time, report.startedTime)
        /\ TimeOf(yarn_metadata[1].finish_time, report.finishedTime)
        /\ yarn_metadata[1].start_time = EpochZero <=>
               (0 < report.startedTime /\ report.startedTime < MillisPerSecond)
        /\ yarn_metadata[1].finish_time = EpochZero <=>
               (0 < report.finishedTime /\ report.finishedTime < MillisPerSecond)

\* a report of an application that started and has not finished
C20_Witness ==
    /\ Parsed
    /\ report.startedTime = 60000 /\ report.finishedTime = 0
    /\ yarn_metadata[1].start_time.present /\ yarn_metadata[1].start_time.seconds = 60
    /\ ~yarn_metadata[1].finish_time.present

\* ------------------------------------------------------------------- C21
\* YarnStatusGetter.get_job_metadata ended
YarnEnded == yarn_outcome # "none"

\* the response carries an HTTP error status other than 404
OtherHttpError == response.status_code >= 400 /\ response.status_code # 404

\* the body is a JSON dict whose application report has the four required keys
HasRequiredKeys ==
    /\ response.body = "dict"
    /\ response.app # "null"
    /\ required_keys \subseteq report.keys

\* C21: the YARN variant classifies every response into exactly one of four outcomes:
\* HTTP 404 raises AppNotFound, any other HTTP error status propagates as the transport
\* error, a body that is not a dict or lacks one of state, finalStatus, startedTime,
\* finishedTime raises the parse error, and only otherwise is a snapshot returned; so
\* AppNotFound is never raised for a non-404 response and a 404 never a parse error.
C21_YarnClassifies ==
    YarnEnded =>
        /\ yarn_outcome \in {"AppNotFound", "HTTPError", "YarnAppReportParseException", "snapshot"}
        /\ yarn_outcome = "AppNotFound" <=> response.status_code = 404
        /\ OtherHttpError => yarn_outcome = "HTTPError"
        /\ (YarnOk /\ ~HasRequiredKeys) => yarn_outcome = "YarnAppReportParseException"
        /\ yarn_outcome = "snapshot" => (YarnOk /\ HasRequiredKeys)

\* ------------------------------------------------------------------- C22
\* the job of the only registry entry JobTracker polls in ClusterSpec
PolledJob == jobs_to_track[1].job_id

\* the provider was polled for record i and raised something else than AppNotFound
PollFailed(i) ==
    \E k \in DOMAIN ops :
        /\ ops[k][1] = "get_job_metadata" /\ ops[k][2] = i
        /\ ops[k][4] = "raise" /\ ops[k][3] # "AppNotFound"

\* C22: in the Kubernetes variant a resource without a status field gives the canonical
\* status of a new application (queued, not terminal) with absent start and finish time,
\* and no exception: the poll returns the snapshot and the sync of the job goes on to
\* the patch of the primary registry and, from there, to the mirror.
C22_NoStatusIsNew ==
    k8s_resource.kind = "no_status" =>
        /\ k8s_outcome \in {"none", "status", "snapshot"}
        /\ k8s_outcome # "none" =>
              /\ k8s_metadata[1].status = "queued"
              /\ k8s_metadata[1].status \notin TerminalStatuses
              /\ k8s_metadata[1].start_time = "none"
              /\ k8s_metadata[1].finish_time = "none"
        /\ \A i \in Records :
              /\ ~PollFailed(i)
              /\ (PolledOk(i) /\ SyncOver(i)) => (PatchedAt(i, "ok") \/ PatchedAt(i, "raise"))
              /\ (PolledOk(i) /\ PatchedAt(i, "ok")) =>
                    /\ zk[jobs_to_track[i].job_id].status = "queued"
                    /\ zk[jobs_to_track[i].job_id].started = "none"
                    /\ zk[jobs_to_track[i].job_id].finished = "none"
                    /\ (SyncOver(i) /\ has_ejr) => MirroredAfterPatch(i)

\* a pass that found the resource of a queued job without status, and patched the
\* job in both registries with the status queued and no start time
C22_Witness ==
    /\ k8s_resource.kind = "no_status" /\ kubecost.failure = "none"
    /\ PassEnded /\ outcome = "returned" /\ has_ejr
    /\ Len(jobs_to_track) = 1 /\ jobs_to_track[1].status = "queued"
    /\ PolledOk(1) /\ PatchedAt(1, "ok")
    /\ zk[PolledJob].status = "queued" /\ zk[PolledJob].started = "none"
    /\ ejr[PolledJob].status = "queued"

\* ------------------------------------------------------------------- C23
\* the usage step of K8sStatusGetter.get_job_metadata
UsageStep == k8s_outcome = "status" /\ k8s_outcome' # "status"

\* C23: in the Kubernetes variant every failure of the cost query is caught: the step
\* that asks for the usage always ends get_job_metadata with a snapshot, never with an
\* exception; the snapshot has the status, start time and finish time that
\* _get_job_status derived, whether the query failed or not, and no usage data when it
\* failed.
C23_UsageFailureCaught ==
    [][ UsageStep =>
           /\ k8s_outcome' = "snapshot"
           /\ k8s_metadata'[1].status = k8s_metadata[1].status
           /\ k8s_metadata'[1].start_time = k8s_metadata[1].start_time
           /\ k8s_metadata'[1].finish_time = k8s_metadata[1].finish_time
           /\ kubecost.failure # "none" => k8s_metadata'[1].usage = NoUsage
           /\ kubecost.failure = "none" => k8s_metadata'[1].usage # NoUsage ]_vars

\* the cost service was unreachable for a running job, and JobTracker holds a snapshot
\* with the status and start time of the resource and without usage
C23_Witness ==
    /\ kubecost.failure = "ConnectionError"
    /\ k8s_resource.kind = "status" /\ k8s_resource.state = "RUNNING"
    /\ pc = "patch_status"
    /\ k8s_calls = << "get_namespaced_custom_object", "kubecost" >>
    /\ job_metadata.status = "running" /\ job_metadata.start_time = "t1"
    /\ job_metadata.usage = NoUsage

\* ------------------------------------------------------------------- C26
\* C26: in the Kubernetes variant a 404 of the resource lookup raises AppNotFound, and
\* nothing else does; any other API error propagates as it is; in both cases the cost
\* query is not issued.
C26_LookupFailureSkipsUsage ==
    k8s_outcome # "none" =>
        /\ k8s_outcome = "AppNotFound" <=>
              (k8s_resource.kind = "ApiException" /\ k8s_resource.status = 404)
        /\ (k8s_resource.kind = "ApiException" /\ k8s_resource.status # 404) =>
              k8s_outcome = "ApiException"
        /\ k8s_resource.kind = "ApiException" =>
              k8s_calls = << "get_namespaced_custom_object" >>

\* the lookup answered 403: the sync of the job failed with the ApiException and the
\* cost service was never asked
C26_Witness ==
    /\ k8s_resource.kind = "ApiException" /\ k8s_resource.status = 403
    /\ PassEnded
    /\ << "get_job_metadata", 1, "ApiException", "raise" >> \in { ops[k] : k \in DOMAIN ops }
    /\ k8s_calls = << "get_namespaced_custom_object" >>
    /\ Count(stats, <<"failed sync">>) = 1

\* ------------------------------------------------------------------- C28
\* C28: in the Kubernetes variant the usage of a successful cost query is in
\* seconds-based units, the units of the YARN variant: cpu is cpuCoreHours x 3600 in
\* cpu-seconds and memory is ramByteHours / (1024 x 1024) x 3600 in mb-seconds.
C28_SecondsUnits ==
    (k8s_outcome = "snapshot" /\ kubecost.failure = "none") =>
        LET usage == k8s_metadata[1].usage IN
        /\ usage.cpu.unit = "cpu-seconds"
        /\ usage.memory.unit = "mb-seconds"
        /\ usage.cpu.value.num = kubecost.cpuCoreHours * 3600 * usage.cpu.value.den
        /\ usage.memory.value.num * BytesPerMb =
              kubecost.ramByteHours * 3600 * usage.memory.value.den

\* ------------------------------------------------------------------- C24
\* the YARN report gives a number for the key
Reported(key) == key \in report.keys \ report.nulls

\* the usage of the snapshot the provider returned
ProviderUsage == ProviderMetadata.usage

\* every metric of the usage u has a number that is not negative
NonNegative(u) ==
    \A m \in DOMAIN u : ~u[m].value.null /\ u[m].value.num >= 0 /\ u[m].value.den > 0

\* C24: in every snapshot and in every usage patched into the primary registry the
\* values are non-negative, and a metric that was not reported is left out instead of
\* being there with a zero or a null.
C24_UsageOmitsAbsentMetrics ==
    /\ ProviderOutcome = "snapshot" =>
          /\ NonNegative(ProviderUsage)
          /\ response # NoResponse =>
                /\ "memory" \in DOMAIN ProviderUsage <=> Reported("memorySeconds")
                /\ "cpu" \in DOMAIN ProviderUsage <=> Reported("vcoreSeconds")
    /\ \A i \in Records :
          (PolledOk(i) /\ PatchedAt(i, "ok")) => NonNegative(zk[jobs_to_track[i].job_id].usage)

\* ------------------------------------------------------------------- C25
\* the calls that only the sync of a found application makes
FurtherProcessing ==
    {"get_results_metadata", "zk.patch_results", "zk.remove_dependencies", "schedule_delete",
     "zk.patch_status"}

\* the mirror of ERROR was attempted for record i
ErrorMirrorAttempted(i) ==
    \E k \in DOMAIN ops :
        ops[k][1] = "ejr.set_status" /\ ops[k][2] = i /\ ops[k][3] = JOB_STATUS_ERROR

\* the records of the pass whose AppNotFound handler ran to its return
AppNotFoundHandled == { i \in Records : AppNotFoundAt(i) /\ PrimaryErrorWritten(i) /\ idx > i }

\* C25: on AppNotFound the sync of the job calls nothing but the primary registry's
\* set_status(ERROR) and the mirror of ERROR: no result-metadata fetch or patch, no
\* remove_dependencies, no cleanup scheduling, no patch of status and times, so
\* start_time, finish_time, usage, result metadata and dependency sources of the entry
\* stay as the snapshot found them; once ERROR is set, the mirror is attempted (when a
\* secondary registry is configured) and "app not found" is incremented, once per job.
C25_AppNotFoundStops ==
    /\ \A i \in Records :
          AppNotFoundAt(i) =>
              LET job == zk[jobs_to_track[i].job_id]
                  was == jobs_to_track[i]
              IN  /\ \A k \in DOMAIN ops : ops[k][2] = i => ops[k][1] \notin FurtherProcessing
                  /\ job.started = was.started /\ job.finished = was.finished
                  /\ job.usage = was.usage /\ job.results = was.results
                  /\ job.dependency_sources = was.dependency_sources
                  /\ (PrimaryErrorWritten(i) /\ idx > i) =>
                        /\ job.status = JOB_STATUS_ERROR
                        /\ has_ejr => ErrorMirrorAttempted(i)
    /\ pc # "app_not_found_ejr" => Count(stats, <<"app not found">>) = Cardinality(AppNotFoundHandled)

\* a job that started in the first pass and was not found in the second: its entry has
\* status error, the start time and usage of the first pass and its dependency sources
C25_Witness ==
    /\ passes = 1 /\ pc = "loop" /\ idx = 2 /\ has_ejr
    /\ AppNotFoundAt(1) /\ PrimaryErrorWritten(1) /\ ErrorMirrorAttempted(1)
    /\ Count(stats, <<"app not found">>) = 1
    /\ zk[jobs_to_track[1].job_id].status = "error"
    /\ zk[jobs_to_track[1].job_id].started = "t1"
    /\ zk[jobs_to_track[1].job_id].usage = "u1"
    /\ zk[jobs_to_track[1].job_id].dependency_sources # <<>>
    /\ ejr[jobs_to_track[1].job_id].status = "error"

\* ------------------------------------------------------------------- C27
\* a value, or 0 when it is absent
OrZero(v) == IF v = -1 THEN 0 ELSE v

\* C27: the finalize step that logs the usage appends one audit record for the job,
\* whose total is the sentinelhub value of the fetched result metadata, or 0 without
\* such an entry, plus the dependency_usage of the job's record in the snapshot, or 0
\* without it; the step changes neither registry.
C27_LoggedUsage ==
    [][ pc = "log_usage" =>
           /\ Len(audit') = Len(audit) + 1
           /\ audit'[Len(audit')].job_id = jobs_to_track[idx].job_id
           /\ audit'[Len(audit')].sentinelhub =
                  OrZero(ResultsMetadataOf(jobs_to_track[idx].job_id).sentinelhub)
                      + OrZero(jobs_to_track[idx].dependency_usage)
           /\ zk' = zk /\ ejr' = ejr ]_vars

\* two jobs finalized in one pass: 3 units of results plus 2 of dependencies logged for
\* the first, 0 for the second, which has neither
C27_Witness ==
    /\ Len(audit) = 2
    /\ audit[1].job_id = 1 /\ audit[1].sentinelhub = 5
    /\ audit[2].job_id = 2 /\ audit[2].sentinelhub = 0
    /\ zk[1].dependency_usage = 2 /\ zk[2].dependency_usage = -1

\* ------------------------------------------------------------------- C29
\* the writes of a status to the primary registry
PrimaryWrites == {"zk.set_status", "zk.patch_status"}

\* entry k of the call log is a write of a status to the secondary registry, attempted
\* or done
MirrorAt(k) == ops[k][1] = "ejr.set_status"

\* before entry m of the call log, the primary registry was written for the same record
\* with the same status, and the write returned
PrimaryWrittenBefore(m) ==
    \E k \in 1..(m - 1) :
        /\ ops[k][1] \in PrimaryWrites /\ ops[k][2] = ops[m][2]
        /\ ops[k][3] = ops[m][3] /\ ops[k][4] = "ok"

\* C29: in every sync the secondary registry is written with a status for a job only
\* after the primary registry's write of that status for the job returned in the same
\* sync; right after a write to the secondary registry both registries hold that
\* status for the job; and a primary write that raised is followed by no write to the
\* secondary registry for that job in the pass.
C29_PrimaryBeforeSecondary ==
    /\ \A m \in DOMAIN ops : MirrorAt(m) => PrimaryWrittenBefore(m)
    /\ (ops # <<>> /\ MirrorAt(Len(ops)) /\ ops[Len(ops)][4] = "ok") =>
          LET job == jobs_to_track[ops[Len(ops)][2]].job_id
          IN  zk[job].status = ops[Len(ops)][3] /\ ejr[job].status = ops[Len(ops)][3]
    /\ \A k \in DOMAIN ops :
          (ops[k][1] \in PrimaryWrites /\ ops[k][4] = "raise") =>
              \A m \in DOMAIN ops : MirrorAt(m) => ops[m][2] # ops[k][2]

\* a pass in which the patch of the first job raised, leaving the secondary registry
\* without it, and the second job was written to both registries
C29_Witness ==
    /\ PassEnded /\ passes = 1 /\ has_ejr /\ ~fail_fast /\ Len(jobs_to_track) = 2
    /\ << "zk.patch_status", 1, "finished", "raise" >> \in { ops[k] : k \in DOMAIN ops }
    /\ ejr[jobs_to_track[1].job_id].status = "none"
    /\ << "ejr.set_status", 2, "running", "ok" >> \in { ops[k] : k \in DOMAIN ops }
    /\ zk[jobs_to_track[2].job_id].status = "running"
    /\ ejr[jobs_to_track[2].job_id].status = "running"

\* ------------------------------------------------------------------- C30
\* the records of the pass whose job has the final status X in the primary registry,
\* written by the patch of this pass
PersistedFinal(X) ==
    { i \in Records :
        /\ PolledOk(i) /\ PolledStatus(i) = X /\ PatchedAt(i, "ok")
        /\ zk[jobs_to_track[i].job_id].status = X }

\* C30: at the end of a pass, every job counted under "reached final status X" has the
\* status X in the primary registry; a job whose finalize step failed, so that the
\* patch of the status was not reached, is not counted.
C30_CountedIsPersisted ==
    PassEnded =>
        \A X \in TerminalStatuses :
            Count(stats, <<"reached final status", X>>) = Cardinality(PersistedFinal(X))

\* ---------------------------------------------------------------- C31
\* the invocations so far, the one in progress included: their snapshots and calls
Invocations ==
    { [jobs |-> history[p].jobs, ops |-> history[p].ops] : p \in DOMAIN history }
        \cup { [jobs |-> jobs_to_track, ops |-> ops] }

\* remove_dependencies returned for job j, whose snapshot record had dependency sources
Cleared(j) ==
    \E inv \in Invocations : \E k \in DOMAIN inv.ops :
        /\ inv.ops[k][1] = "zk.remove_dependencies" /\ inv.ops[k][4] = "ok"
        /\ inv.jobs[inv.ops[k][2]].job_id = j
        /\ ShouldSchedule(DependencySources(inv.jobs[inv.ops[k][2]]))

\* the cleanup of job j's sources was handed to the scheduler
Handed(j) == \E k \in DOMAIN scheduled : scheduled[k].job_id = j

\* the sync of job j is between remove_dependencies and the scheduling call
AboutToHand(j) == pc = "schedule" /\ job_info.job_id = j

\* C31: no dependency source is lost: once remove_dependencies cleared the sources of a
\* job in the primary registry, their cleanup has been handed to the scheduler, or is
\* about to be by the sync in progress, or a later pass can still see the job (it is
\* in the running set) and hand them over.
C31_NoSourceLost ==
    \A j \in Slots :
        (Cleared(j) /\ zk[j].status \in TerminalStatuses) =>
            (Handed(j) \/ AboutToHand(j))

\* ---------------------------------------------------------------- C32
\* the scheduling calls made for job j, over all invocations, answered or not
SchedulingCalls(j) ==
    UNION { { << p, k >> : k \in { n \in DOMAIN history[p].ops :
                                      /\ history[p].ops[n][1] = "schedule_delete"
                                      /\ history[p].jobs[history[p].ops[n][2]].job_id = j } } :
            p \in DOMAIN history }

\* job j was finalized in an earlier invocation and is enumerated again
EnumeratedAgain(j) ==
    /\ pc # "idle" /\ SnapshotRead /\ InSnapshot(j)
    /\ \E p \in DOMAIN history : \E k \in DOMAIN history[p].ops :
          /\ history[p].ops[k][1] = "zk.remove_dependencies" /\ history[p].ops[k][4] = "ok"
          /\ history[p].jobs[history[p].ops[k][2]].job_id = j

\* C32: over the passes, one after the other, the cleanup of a job is scheduled at most
\* once, also when the finalized job is enumerated again: a scheduling call of a sync
\* follows the remove_dependencies of that sync, which returned, and a job whose
\* dependencies were removed in an earlier pass has no dependency sources in the snapshot.
C32_ScheduledAtMostOnce ==
    /\ \A j \in Slots :
          /\ Cardinality({ k \in DOMAIN scheduled : scheduled[k].job_id = j }) <= 1
          /\ Cardinality(SchedulingCalls(j)) <= 1
          /\ EnumeratedAgain(j) =>
                \A i \in Records :
                    jobs_to_track[i].job_id = j => DependencySources(jobs_to_track[i]) = {}
    /\ \A k \in DOMAIN ops :
          ops[k][1] = "schedule_delete" =>
              /\ k > 1
              /\ ops[k - 1] = << "zk.remove_dependencies", ops[k][2], "", "ok" >>

\* a job whose cleanup was scheduled and whose status is terminal in the snapshot is
\* finalized again, and the pass went by the scheduling step without a call
C32_Witness ==
    /\ pc = "log_usage"
    /\ job_info.status \in TerminalStatuses
    /\ EnumeratedAgain(job_info.job_id)
    /\ Handed(job_info.job_id)
    /\ NumberOf("schedule_delete", idx) = 0

\* ---------------------------------------------------------------- C33
\* C33: when two invocations overlap on the same primary registry, the cleanup of the
\* dependency sources of a job is scheduled at most once.
C33_OverlapSchedulesOnce ==
    \A j \in Slots : Cardinality({ k \in DOMAIN scheduled : scheduled[k].job_id = j }) <= 1

\* ---------------------------------------------------------------- C34
\* the status patch of the sync in progress returns
PatchStatusReturns == pc = "patch_status" /\ pc' = "ejr_set_status"

\* the status write of the AppNotFound handler returns
SetStatusReturns == pc = "app_not_found" /\ pc' = "app_not_found_ejr"

\* the provider answers the sync in progress with a snapshot
PollAnswered == pc = "get_job_metadata" /\ pc' \in {"get_results_metadata", "patch_status"}

\* C34: the status a sync writes to the primary registry is the status it polled (ERROR
\* when the provider said AppNotFound), whatever the entry holds when the write is made;
\* the previous status is the one of the snapshot and only decides which counter is
\* incremented.
C34_WritesPolledStatus ==
    [][ /\ PatchStatusReturns =>
              /\ zk'[job_info.job_id].status = PolledStatus(idx)
              /\ job_metadata.status = PolledStatus(idx)
        /\ SetStatusReturns => zk'[job_info.job_id].status = JOB_STATUS_ERROR
        /\ PollAnswered =>
              /\ (Count(stats', <<"status change">>) = Count(stats, <<"status change">>) + 1)
                    <=> job_info.status # job_metadata'.status
              /\ (Count(stats', <<"status same">>) = Count(stats, <<"status same">>) + 1)
                    <=> job_info.status = job_metadata'.status
              /\ zk' = zk
      ]_vars

\* in the first pass a user cancelled the job after the snapshot was read, and the status
\* patch put the polled status, which is the one of the snapshot, over CANCELED
C34_Witness ==
    /\ passes = 0 /\ pc = "ejr_set_status"
    /\ set_by[job_info.job_id] = "external"
    /\ job_info.status = "running" /\ PolledStatus(idx) = "running"
    /\ zk[job_info.job_id].status = "running"
    /\ Count(stats, <<"status same">>) = 1

\* ---------------------------------------------------------------- C35
\* the operations of the primary registry
ZkOps == { "zk.get_running_jobs", "zk.set_status", "zk.patch_results",
           "zk.remove_dependencies", "zk.patch_status" }

\* an operation of the primary registry is made, answered or not
ZkCalled == Len(ops') = Len(ops) + 1 /\ ops'[Len(ops')][1] \in ZkOps

\* C35: every operation of a pass on the primary registry (get_running_jobs,
\* set_status, patch, remove_dependencies) is made while the registry session of the
\* pass is held: after it was acquired and before it is released.
C35_SessionHeld ==
    [][ ZkCalled =>
            /\ session /\ session'
            /\ acquired = released + 1
            /\ acquired = passes + 1
            /\ acquired' = acquired /\ released' = released
      ]_vars

\* the second pass patches a status: the session of the first pass was released and the
\* one of the second is held
C35_Witness ==
    /\ passes = 1 /\ pc = "ejr_set_status" /\ session
    /\ acquired = 2 /\ released = 1
    /\ ops[Len(ops)][1] = "zk.patch_status"
    /\ \E k \in DOMAIN history[1].ops : history[1].ops[k][1] \in ZkOps \ {"zk.get_running_jobs"}

\* ---------------------------------------------------------------- C36
RECURSIVE SumOf(_, _)
\* the sum of the counters of st whose keys are in keys
SumOf(st, keys) ==
    IF keys = {} THEN 0
    ELSE LET k == CHOOSE x \in keys : TRUE IN st[k] + SumOf(st, keys \ {k})

\* the "skip due to no application_id (status=...)" counters together
Skipped(st) == SumOf(st, { k \in DOMAIN st : k[1] = "skip due to no application_id" })

\* the records of the pass that failed before the provider was called
FailedBeforePoll == Cardinality({ k \in DOMAIN ops : ops[k][1] = "visit" /\ ops[k][4] = "raise" })

\* the jobs of the pass whose status query raised something else than AppNotFound
QueryFailed ==
    Cardinality({ k \in DOMAIN ops : /\ ops[k][1] = "get_job_metadata" /\ ops[k][4] = "raise"
                                     /\ ops[k][3] # "AppNotFound" })

\* the jobs of the pass whose AppNotFound was not handled to the end: set_status raised
NotFoundUnhandled ==
    Cardinality({ k \in DOMAIN ops : ops[k][1] = "zk.set_status" /\ ops[k][4] = "raise" })

\* the jobs of the pass that polled as not found and whose handler is still running
NotFoundInProgress == IF pc \in {"app_not_found", "app_not_found_ejr"} THEN 1 ELSE 0

\* the pass ended without an exception leaving it
PassReturned == PassEnded /\ outcome = "returned"

\* what holds of the counters at every point of a pass
Accounting ==
    /\ Count(stats, <<"get metadata attempt">>)
          >= Count(stats, <<"new metadata">>) + Count(stats, <<"app not found">>)
    /\ Count(stats, <<"new metadata">>)
          = Count(stats, <<"status change">>) + Count(stats, <<"status same">>)
    /\ PassReturned =>
          Count(stats, <<"collected jobs">>)
              = Count(stats, <<"invalid job_info">>) + Skipped(stats)
                  + Count(stats, <<"get metadata attempt">>) + FailedBeforePoll

\* the claim as stated: at the end of a pass that was not aborted, the attempts that
\* gave neither new metadata nor "app not found" are the queries that raised another error
C36_Original ==
    /\ Accounting
    /\ PassReturned =>
          Count(stats, <<"get metadata attempt">>) - Count(stats, <<"new metadata">>)
              - Count(stats, <<"app not found">>) = QueryFailed

\* C36: at every point of a pass "get metadata attempt" >= "new metadata" + "app not
\* found" and "new metadata" = "status change" + "status same"; at the end of a pass that
\* was not aborted "collected jobs" = "invalid job_info" + the "skip due to no
\* application_id" counters + "get metadata attempt" + the records that failed before
\* the provider call, and "get metadata attempt" - "new metadata" - "app not found" is
\* the number of jobs whose status query raised another error plus the number of jobs
\* that were not found and whose set_status(ERROR) raised (during a pass, plus the job
\* whose AppNotFound is being handled).
C36_CounterAccounting ==
    /\ Accounting
    /\ Count(stats, <<"get metadata attempt">>) - Count(stats, <<"new metadata">>)
          - Count(stats, <<"app not found">>)
              = QueryFailed + NotFoundUnhandled + NotFoundInProgress

\* a pass over two jobs returned: one was not found and the write of ERROR raised, the
\* other gave new metadata
C36_Witness ==
    /\ PassReturned
    /\ NotFoundUnhandled = 1 /\ QueryFailed = 0
    /\ Count(stats, <<"get metadata attempt">>) = 2
    /\ Count(stats, <<"new metadata">>) = 1
    /\ Count(stats, <<"app not found">>) = 0
    /\ Count(stats, <<"collected jobs">>) = 2

\* ---------------------------------------------------------------- C37
\* poll k observed a Failed condition with status True
SawFailed(k) == \E c \in polls[k].list : c[1] = "Failed" /\ c[2] = "True"

\* poll k observed a Complete condition with status True
SawComplete(k) == \E c \in polls[k].list : c[1] = "Complete" /\ c[2] = "True"

LastPoll == Len(polls)

LaunchEnded == launch_outcome # "none"

\* C37: launch_job_and_wait creates the job once and then polls it; it returns only if
\* the last poll observed Complete with status True and no Failed with status True, raises
\* RuntimeError exactly when a poll observed Failed with status True (also next to a
\* Complete), raises TimeoutError exactly when it ends without a request failing and
\* without a poll that observed either, the elapsed time having reached the timeout;
\* no poll follows one that observed either.
C37_LaunchAndWait ==
    /\ creations <= 1
    /\ polls # <<>> => creations = 1
    /\ \A k \in DOMAIN polls : k < LastPoll => ~SawFailed(k) /\ ~SawComplete(k)
    /\ launch_outcome = "returned" =>
          polls # <<>> /\ SawComplete(LastPoll) /\ ~SawFailed(LastPoll)
    /\ launch_outcome = "RuntimeError" <=>
          LaunchEnded /\ polls # <<>> /\ SawFailed(LastPoll)
    /\ launch_outcome = "TimeoutError" <=>
          /\ LaunchEnded /\ launch_outcome # "ApiException"
          /\ \A k \in DOMAIN polls : ~SawFailed(k) /\ ~SawComplete(k)
    /\ launch_outcome = "TimeoutError" => elapsed >= timeout
    /\ launch_outcome \in {"none", "returned", "RuntimeError", "TimeoutError", "ApiException"}

\* the third poll observed Failed and Complete, both with status True, after two polls
\* that observed neither: RuntimeError
C37_Witness ==
    /\ launch_outcome = "RuntimeError"
    /\ Len(polls) = 3
    /\ SawFailed(3) /\ SawComplete(3)
    /\ creations = 1

====
